---- MODULE Spec2Model ----
(***************************************************************************)
(* Model of the index coordinator of harshagw/postings                     *)
(* (internal/index, internal/store, internal/segment, internal/search).    *)
(*                                                                         *)
(* A document is an external id plus one user field "body" holding a set   *)
(* of terms; the engine-owned field "_id" holds the external id.  Docnums  *)
(* are positions in a segment's (or the builder's) document list; the code *)
(* counts them from 0, the model from 1.                                   *)
(***************************************************************************)
EXTENDS Naturals, Integers, Sequences, FiniteSets, TLC

VARIABLES
    closed,            \* Index.closed
    crashed,           \* the process died reading an unmapped segment
    segments,          \* Index.segments: ids of the open segment handles, in order
    builder,           \* Index.builder: address of the live builder (Nil after Close)
    builders,          \* heap of segment.Builder objects reachable from index or snapshot
    epoch,             \* Index.epoch
    pendingDeletions,  \* Index.pendingDeletions: segment id -> set of docnums
    segs,              \* segment handles: id -> [DocIDs, Docs, closes, unmaps]
    files,             \* segment files on disk: id -> [DocIDs, Docs]
    metaEpoch,         \* metadata store, bucket meta/epoch
    metaSegments,      \* metadata store, bucket segments/list
    metaDeletions,     \* metadata store, bucket deletions
    metaDocIDs,        \* metadata store, bucket docids
    metaOpen,          \* the metadata database is open
    snap,              \* the snapshot a reader holds (NoSnap when none)
    fmIDs,             \* ForceMerge: ids read under the read lock, Merge not yet called
    added,             \* how many documents Index has added so far
    ret,               \* what the last operation returned to the caller: [op, err]
    live,              \* history: id -> content last indexed, or Absent once deleted
    scenario,          \* history: progress of the run Delete(id); Flush; ForceMerge
    call               \* a library function under evaluation: its input, then its output

\* the index handle, its store and the histories: everything but call
handle == <<closed, crashed, segments, builder, builders, epoch, pendingDeletions,
            segs, files, metaEpoch, metaSegments, metaDeletions, metaDocIDs,
            metaOpen, snap, fmIDs, ret, added, live, scenario>>

vars == <<closed, crashed, segments, builder, builders, epoch, pendingDeletions,
          segs, files, metaEpoch, metaSegments, metaDeletions, metaDocIDs,
          metaOpen, snap, fmIDs, ret, added, live, scenario, call>>

-----------------------------------------------------------------------------
(* Bounds of the model *)

\* Index.FlushThreshold of the Config under check
FlushThreshold == 2
\* no Index call once this many documents have been added
MaxAdded == 3
\* no merge that would close a handle already closed this many times
MaxCloses == 2
\* no flush or merge once the stored epoch has reached this value
MaxEpoch == 3
\* a list of a boolean query holds at most this many children
MaxClauses == 2
\* a text holds at most this many tokens
MaxTokens == 3
\* a phrase holds at most this many tokens
MaxPhrase == 3
\* a container searched for a phrase holds this many documents
NumTexts == 2
\* a posting list given to the codec holds at most this many postings
MaxPostings == 2
\* a posting given to the codec holds at most this many positions
MaxPositions == 2
\* a result list handed to a sort holds at most this many results
MaxResults == 4
\* scores are drawn from 0..MaxScore
MaxScore == 2
\* a term occurs at most this often in a scored field
MaxTf == 4
\* a scored field holds at most this many tokens
MaxFieldLen == 3
\* the scored collection holds at most this many documents
MaxDocs == 3
\* at most this many bitmap objects are allocated
MaxBitmaps == 5
\* the goroutines that call getFST on one segment
NumCallers == 3

ExtIds == {"x", "y"}
\* the term "x" is also an external id: it can match in "_id" and in "body"
Terms == {"a", "x"}
\* contents of the body field
Vals == {{"a"}, {"a", "x"}}
SegIds == 1..(MaxEpoch + 1)

Nil == 0
NoSnap == [none |-> TRUE]
NoIDs == <<"none">>
Absent == {"absent"}

IDField == "_id"
BodyField == "body"

OK == "ok"
ErrClosed == "index is closed"
ErrTx == "metadata transaction failed"
ErrOpen == "failed to open segment"
ErrTooFew == "need at least 2 segments to merge"
ErrNotFound == "some segments not found"
ErrSegNotFound == "segment not found"
ErrDocNum == "docNum out of range"
ErrPanic == "panic"
\* ForceMerge has read the segment ids and has not returned yet
Running == "running"

-----------------------------------------------------------------------------
(* Helpers *)

Max(S) == CHOOSE m \in S : \A n \in S : n <= m
Min(S) == CHOOSE m \in S : \A n \in S : m <= n

RECURSIVE AscSeq(_)
\* the elements of a finite set of numbers in increasing order
AscSeq(S) == IF S = {} THEN <<>> ELSE <<Min(S)>> \o AscSeq(S \ {Min(S)})

Range(s) == {s[i] : i \in 1..Len(s)}

\* the function f restricted to the keys in S
Restrict(f, S) == [k \in (DOMAIN f) \cap S |-> f[k]]

\* bitmap stored under key k, empty when there is none (roaring.New())
BitmapAt(f, k) == IF k \in DOMAIN f THEN f[k] ELSE {}

-----------------------------------------------------------------------------
(* Postings and term dictionary values *)

Posting(d, f, ps) == [DocNum |-> d, Frequency |-> f, Positions |-> ps]

\* an FST value: the top bit of the uint64 (OneHitFlag) and the other 63 bits
EncodeOneHit(docNum) == [oneHit |-> TRUE, v |-> docNum]
IsOneHit(val) == val.oneHit
DecodeOneHit(val) == val.v
Offset(relOffset) == [oneHit |-> FALSE, v |-> relOffset]

\* a one-hit rule that asks for the single position to be 0
OneHitAtStart(postings) ==
    /\ Len(postings) = 1
    /\ postings[1].Frequency = 1
    /\ postings[1].Positions = <<0>>

\* writeFieldIndex: a term with exactly one posting of frequency 1 and a
\* single position is stored in the FST as a one-hit value
OneHit(postings) ==
    /\ Len(postings) = 1
    /\ postings[1].Frequency = 1
    /\ Len(postings[1].Positions) = 1

-----------------------------------------------------------------------------
(* segment.Builder *)

NewBuilder == [DocIDs |-> <<>>, Docs |-> <<>>, Deleted |-> {}]

BuilderAdd(b, id, doc) ==
    [b EXCEPT !.DocIDs = Append(@, id), !.Docs = Append(@, doc)]

BuilderDelete(b, id) ==
    LET hits == {i \in 1..Len(b.DocIDs) : b.DocIDs[i] = id /\ i \notin b.Deleted}
    IN IF hits = {} THEN b ELSE [b EXCEPT !.Deleted = @ \cup {Min(hits)}]

\* a count that includes the tombstoned documents
BuilderNumDocsAll(b) == Len(b.DocIDs)

\* Builder.NumDocs: the documents that are not tombstoned
BuilderNumDocs(b) == Len(b.DocIDs) - Cardinality(b.Deleted)

BuilderTotalDocs(b) == Len(b.DocIDs)

\* Builder.Build: every document, deleted or not, goes into the file
BuildContent(b) == [DocIDs |-> b.DocIDs, Docs |-> b.Docs]

\* Builder.Fields[f][t]: the docnums of the postings of term t in field f.
\* Add overwrites Fields["_id"][id], so "_id" keeps the latest docnum only.
Postings(c, f, t) ==
    IF f = IDField
    THEN LET hits == {i \in 1..Len(c.DocIDs) : c.DocIDs[i] = t}
         IN IF hits = {} THEN {} ELSE {Max(hits)}
    ELSE IF f = BodyField
    THEN {i \in 1..Len(c.Docs) : t \in c.Docs[i]}
    ELSE {}

-----------------------------------------------------------------------------
(* segment.Segment *)

\* Builder.Add: Fields["_id"][id] is the one posting of the latest Add of id
IdPostings(c, id) ==
    IF Postings(c, IDField, id) = {} THEN <<>>
    ELSE <<Posting(Max(Postings(c, IDField, id)), 1, <<1>>)>>

\* writeFieldIndex on the "_id" field: the FST of the built segment, id -> value;
\* a term that is not one-hit gets the offset of its list in the postings area
IdDictionary(c) ==
    [id \in Range(c.DocIDs) |->
       IF OneHit(IdPostings(c, id))
       THEN EncodeOneHit(IdPostings(c, id)[1].DocNum)
       ELSE Offset(0)]

\* Segment.DocNumbers: one-hit lookup of each id in the "_id" dictionary
DocNumbers(c, ids) ==
    {DecodeOneHit(IdDictionary(c)[id]) :
       id \in {id \in ids \cap DOMAIN IdDictionary(c) : IsOneHit(IdDictionary(c)[id])}}

SegNumDocs(c) == Len(c.DocIDs)

Mapped(h) == h.closes = 0

OpenHandle(c) == [DocIDs |-> c.DocIDs, Docs |-> c.Docs, closes |-> 0, unmaps |-> 0]

\* s.data == nil: MMap.Unmap has run, and it sets the slice it unmapped to nil
DataIsNil(h) == h.unmaps > 0

\* Segment.Close: closes counts the calls, unmaps the calls that unmapped
CloseHandle(h) == [h EXCEPT !.closes = @ + 1,
                            !.unmaps = IF DataIsNil(h) THEN @ ELSE @ + 1]

-----------------------------------------------------------------------------
(* store.Metadata *)

\* an IncrementEpoch that stores the epoch it read
IncrementEpochStuck(e) == e

\* Tx.IncrementEpoch
IncrementEpoch(e) == e + 1

\* Index.getDeletions: a fresh bitmap read from the store, OR-ed with the pending one
GetDeletions(segID) ==
    BitmapAt(metaDeletions, segID) \cup BitmapAt(pendingDeletions, segID)

\* Metadata.GetDeletions: what the store holds
PersistedDeletions(segID) == BitmapAt(metaDeletions, segID)

-----------------------------------------------------------------------------
(* Index.markObsoletes *)

\* the pending map after tombstoning ids in every open segment
MarkObsoletes(pend, ids) ==
    LET hit == {s \in Range(segments) : DocNumbers(segs[s], ids) # {}}
    IN [s \in (DOMAIN pend) \cup hit |->
          BitmapAt(pend, s) \cup (IF s \in hit THEN DocNumbers(segs[s], ids) ELSE {})]

\* DocNumbers reads the mapped file: it dies on a handle that was closed
ObsoletesPanic == \E s \in Range(segments) : ~Mapped(segs[s])

-----------------------------------------------------------------------------
(* heap housekeeping *)

SnapSegIds(sn) == IF sn = NoSnap THEN {} ELSE {sn.segments[i].seg : i \in 1..Len(sn.segments)}
SnapBuilders(sn) == IF sn = NoSnap THEN {} ELSE {sn.builder} \ {Nil}

\* segment.NewBuilder allocates: an address no snapshot still refers to
FreshBuilder(sn) == Min((1..2) \ SnapBuilders(sn))

\* handles and builders nothing refers to any more are dropped
LiveSegs(sh, segList, sn) == Restrict(sh, Range(segList) \cup SnapSegIds(sn))
LiveBuilders(bh, b, sn) == Restrict(bh, ({b} \ {Nil}) \cup SnapBuilders(sn))

Returned(op, err) == [op |-> op, err |-> err]

\* no caller is recording what the operations return
Unwatched == Returned("none", "none")

\* operation op hands err back to its caller
Out(op, err) ==
    ret' = IF ret = Unwatched \/ err = Running THEN ret ELSE Returned(op, err)

-----------------------------------------------------------------------------
(* search.Searcher on a snapshot sn, with the builder heap bh and handles sh *)

QueryTerms == Terms \cup ExtIds
QueryFields == {"", IDField, BodyField}
Queries == [kind : {"search", "docset"}, term : QueryTerms, field : QueryFields]

\* Segment.Fields(): the footer's field names, in sorted order
SegFields == <<IDField, BodyField>>

\* the external ids of the docnums of ds, in increasing docnum order
IdsOf(c, ds) == [i \in 1..Cardinality(ds) |-> c.DocIDs[AscSeq(ds)[i]]]

RECURSIVE Flatten(_)
Flatten(ss) == IF ss = <<>> THEN <<>> ELSE Head(ss) \o Flatten(Tail(ss))

\* a result list built without consulting the seen set
SeenFilterNone(cands) == cands

RECURSIVE SeenFilter(_)
\* the candidates with every id already in the seen set skipped
SeenFilter(cands) ==
    IF cands = <<>> THEN <<>>
    ELSE LET rest == SeenFilter(SubSeq(cands, 1, Len(cands) - 1))
             last == cands[Len(cands)]
         IN IF last \in Range(rest) THEN rest ELSE Append(rest, last)

\* SegmentSnapshot.Search: the postings of the term that are not deleted
SegSearch(ss, c, f, t) == Postings(c, f, t) \ ss.deleted

\* searchSegment: every field of the segment when no field is given
SearchSegment(ss, c, t, field) ==
    LET fs == IF field = "" THEN SegFields ELSE <<field>>
    IN Flatten([k \in 1..Len(fs) |-> IdsOf(c, SegSearch(ss, c, fs[k], t))])

\* searchBuilder and searchBuilderField
SearchBuilder(b, t, field) ==
    LET fs == IF field = "" THEN SegFields ELSE <<field>>
    IN Flatten([k \in 1..Len(fs) |-> IdsOf(b, Postings(b, fs[k], t) \ b.Deleted)])

\* Searcher.Search before the seen set: segments newest first, then the builder
SearchCandidates(sn, bh, sh, t, field) ==
    LET n == Len(sn.segments)
        fromSegs == Flatten([k \in 1..n |->
                       SearchSegment(sn.segments[n + 1 - k], sh[sn.segments[n + 1 - k].seg], t, field)])
        fromBuilder == IF sn.builder = Nil THEN <<>>
                       ELSE SearchBuilder(bh[sn.builder], t, field)
    IN fromSegs \o fromBuilder

\* Searcher.Search: one seen set across segments and builder
Search(sn, bh, sh, t, field) == SeenFilter(SearchCandidates(sn, bh, sh, t, field))

\* getFieldsToSearch: the given field, or every field but "_id"
GetFieldsToSearch(field) == IF field = "" THEN {BodyField} ELSE {field}

\* termDocSet: one bitmap per segment and one for the builder
TermDocSet(sn, bh, sh, t, field) ==
    [segmentDocs |-> [k \in 1..Len(sn.segments) |->
                        UNION {SegSearch(sn.segments[k], sh[sn.segments[k].seg], f, t)
                               : f \in GetFieldsToSearch(field)}],
     builderDocs |-> IF sn.builder = Nil THEN {}
                     ELSE UNION {Postings(bh[sn.builder], f, t) \ bh[sn.builder].Deleted
                                 : f \in GetFieldsToSearch(field)}]

\* materializeResults: segments newest first, then the builder, one seen set
MaterializeResults(sn, bh, sh, ds) ==
    LET n == Len(sn.segments)
        fromSegs == Flatten([k \in 1..n |->
                       IdsOf(sh[sn.segments[n + 1 - k].seg], ds.segmentDocs[n + 1 - k])])
        fromBuilder == IF sn.builder = Nil THEN <<>>
                       ELSE IdsOf(bh[sn.builder], ds.builderDocs \ bh[sn.builder].Deleted)
    IN SeenFilter(fromSegs \o fromBuilder)

\* a reader of an unmapped segment dies
Faults(sn, sh) == \E k \in 1..Len(sn.segments) : ~Mapped(sh[sn.segments[k].seg])

\* the ids a query returns, in the order they are collected (before the sort by score)
RunQuery(sn, bh, sh, q) ==
    IF Faults(sn, sh) THEN [fault |-> TRUE, ids |-> <<>>]
    ELSE [fault |-> FALSE,
          ids |-> IF q.kind = "search" THEN Search(sn, bh, sh, q.term, q.field)
                  ELSE MaterializeResults(sn, bh, sh,
                           TermDocSet(sn, bh, sh, q.term, q.field))]

\* searchMatch: the external id and where the match was found; segmentIdx is
\* the index into snapshot.Segments() counted from 0, -1 for the builder
Match(docID, segmentIdx) == [docID |-> docID, segmentIdx |-> segmentIdx]

Tagged(ids, segmentIdx) == [k \in 1..Len(ids) |-> Match(ids[k], segmentIdx)]

RECURSIVE SeenMatches(_)
\* the matches whose id is not yet in the seen map, in the order collected
SeenMatches(cands) ==
    IF cands = <<>> THEN <<>>
    ELSE LET rest == SeenMatches(SubSeq(cands, 1, Len(cands) - 1))
             last == cands[Len(cands)]
         IN IF \E k \in 1..Len(rest) : rest[k].docID = last.docID
            THEN rest ELSE Append(rest, last)

\* every match of the term, seen or not: the segments from the last to the
\* first, then the builder
TermCandidates(sn, bh, sh, t, field) ==
    LET n == Len(sn.segments)
        fromSegs == Flatten([k \in 1..n |->
                       Tagged(SearchSegment(sn.segments[n + 1 - k],
                                            sh[sn.segments[n + 1 - k].seg], t, field),
                              n - k)])
        fromBuilder == IF sn.builder = Nil THEN <<>>
                       ELSE Tagged(SearchBuilder(bh[sn.builder], t, field), -1)
    IN fromSegs \o fromBuilder

\* Searcher.Search: the matches handed to scoreAndSort
SearchMatches(sn, bh, sh, t, field) == SeenMatches(TermCandidates(sn, bh, sh, t, field))

\* every document of the docSet: the segments from the last to the first,
\* then the builder
DocSetCandidates(sn, bh, sh, ds) ==
    LET n == Len(sn.segments)
        fromSegs == Flatten([k \in 1..n |->
                       Tagged(IdsOf(sh[sn.segments[n + 1 - k].seg],
                                    ds.segmentDocs[n + 1 - k]),
                              n - k)])
        fromBuilder == IF sn.builder = Nil THEN <<>>
                       ELSE Tagged(IdsOf(bh[sn.builder],
                                         ds.builderDocs \ bh[sn.builder].Deleted), -1)
    IN fromSegs \o fromBuilder

\* materializeResults: the matches handed to scoreAndSort
MaterializeMatches(sn, bh, sh, ds) == SeenMatches(DocSetCandidates(sn, bh, sh, ds))

\* Index.Snapshot: the segments with private copies of their deletions, and the live builder
TakeSnapshot ==
    [segments |-> [k \in 1..Len(segments) |->
                     [seg |-> segments[k], deleted |-> GetDeletions(segments[k])]],
     builder |-> builder,
     epoch |-> epoch]

-----------------------------------------------------------------------------
(* search.docSet: one bitmap of docnums per segment of the snapshot and one *)
(* for the builder                                                          *)

\* the nil *docSet
NilDocSet == [nil |-> TRUE]

NewDocSet(sn) ==
    [segmentDocs |-> [k \in 1..Len(sn.segments) |-> {}], builderDocs |-> {}]

DocSetIsEmpty(ds) ==
    /\ \A k \in 1..Len(ds.segmentDocs) : ds.segmentDocs[k] = {}
    /\ ds.builderDocs = {}

RECURSIVE SumCard(_)
SumCard(bms) == IF bms = <<>> THEN 0 ELSE Cardinality(Head(bms)) + SumCard(Tail(bms))

DocSetCount(ds) == SumCard(ds.segmentDocs) + Cardinality(ds.builderDocs)

DocSetIntersect(ds, other) ==
    [segmentDocs |-> [k \in 1..Len(ds.segmentDocs) |->
                        ds.segmentDocs[k] \cap other.segmentDocs[k]],
     builderDocs |-> ds.builderDocs \cap other.builderDocs]

\* a Subtract that removes nothing
DocSetSubtractNone(ds, other) == ds

DocSetSubtract(ds, other) ==
    [segmentDocs |-> [k \in 1..Len(ds.segmentDocs) |->
                        ds.segmentDocs[k] \ other.segmentDocs[k]],
     builderDocs |-> ds.builderDocs \ other.builderDocs]

\* unionAll: nil for no set, the set itself for one, else the bitmaps OR-ed
UnionAll(sets) ==
    IF Len(sets) = 0 THEN NilDocSet
    ELSE IF Len(sets) = 1 THEN sets[1]
    ELSE [segmentDocs |-> [k \in 1..Len(sets[1].segmentDocs) |->
                             UNION {sets[i].segmentDocs[k] : i \in 1..Len(sets)}],
          builderDocs |-> UNION {sets[i].builderDocs : i \in 1..Len(sets)}]

RECURSIVE IntersectFrom(_, _, _)
\* the loop of intersectAll from index i on, leaving as soon as the result is empty
IntersectFrom(result, sets, i) ==
    IF i > Len(sets) THEN result
    ELSE LET r == DocSetIntersect(result, sets[i])
         IN IF DocSetIsEmpty(r) THEN r ELSE IntersectFrom(r, sets, i + 1)

IntersectAll(sets) ==
    IF Len(sets) = 0 THEN NilDocSet
    ELSE IF Len(sets) = 1 THEN sets[1]
    ELSE IntersectFrom(sets[1], sets, 2)

-----------------------------------------------------------------------------
(* Searcher.boolSearch on a BoolQuery [must, should, mustNot]; a child is a *)
(* TermQuery or a BoolQuery that holds one negated TermQuery                *)

ErrNotOnly == "NOT queries require a positive clause"

TermQ(t, f) == [kind |-> "term", term |-> t, field |-> f]

\* BoolQuery{MustNot: [TermQuery{t, f}]}
NotQ(t, f) == [kind |-> "not", term |-> t, field |-> f]

NoResults == [err |-> OK, ids |-> <<>>]

Failed(err) == [err |-> err, ids |-> <<>>]

\* flattenBoolQuery: the negations of the pure-NOT children of must are hoisted
FlattenBoolQuery(q) ==
    LET nested == SelectSeq(q.must, LAMBDA c : c.kind = "not")
    IN [must |-> SelectSeq(q.must, LAMBDA c : c.kind # "not"),
        mustNot |-> q.mustNot \o [k \in 1..Len(nested) |->
                                    TermQ(nested[k].term, nested[k].field)],
        should |-> q.should]

\* Executor.executeBool, up to its planning: the negations of the pure-NOT
\* children of must, then of should, are hoisted
ExecuteBoolFlattened(q) ==
    LET inMust == SelectSeq(q.must, LAMBDA c : c.kind = "not")
        inShould == SelectSeq(q.should, LAMBDA c : c.kind = "not")
    IN [must |-> SelectSeq(q.must, LAMBDA c : c.kind # "not"),
        mustNot |-> q.mustNot
                      \o [k \in 1..Len(inMust) |-> TermQ(inMust[k].term, inMust[k].field)]
                      \o [k \in 1..Len(inShould) |->
                            TermQ(inShould[k].term, inShould[k].field)],
        should |-> SelectSeq(q.should, LAMBDA c : c.kind # "not")]

\* Searcher.execute on a child: a term search; a pure-NOT BoolQuery is refused
ExecuteChild(sn, bh, sh, c) ==
    IF c.kind = "not" THEN Failed(ErrNotOnly)
    ELSE [err |-> OK, ids |-> Search(sn, bh, sh, c.term, c.field)]

\* executeQueryToDocSet fails on a child that execute refuses
ChildFails(c) == c.kind = "not"

\* executeQueryToDocSet on a TermQuery
ExecuteQueryToDocSet(sn, bh, sh, c) == TermDocSet(sn, bh, sh, c.term, c.field)

\* collectDocSets: the docsets of the children, in order, the empty ones left out
CollectDocSets(sn, bh, sh, queries) ==
    LET all == [k \in 1..Len(queries) |-> ExecuteQueryToDocSet(sn, bh, sh, queries[k])]
    IN SelectSeq(all, LAMBDA ds : ~DocSetIsEmpty(ds))

\* collectDocSets with requireNonEmpty returns nil at the first empty docset
SomeEmpty(sn, bh, sh, queries) ==
    \E k \in 1..Len(queries) :
       DocSetIsEmpty(ExecuteQueryToDocSet(sn, bh, sh, queries[k]))

\* subtractNot
SubtractNot(sn, bh, sh, result, mustNot) ==
    LET notSets == CollectDocSets(sn, bh, sh, mustNot)
    IN IF Len(mustNot) = 0 \/ Len(notSets) = 0 THEN result
       ELSE DocSetSubtract(result, UnionAll(notSets))

\* the results of a docset, none for an empty one
Materialized(sn, bh, sh, ds) ==
    IF DocSetIsEmpty(ds) THEN NoResults
    ELSE [err |-> OK, ids |-> MaterializeResults(sn, bh, sh, ds)]

ExecuteOr(sn, bh, sh, queries) ==
    IF Len(queries) = 0 THEN NoResults
    ELSE IF Len(queries) = 1 THEN ExecuteChild(sn, bh, sh, queries[1])
    ELSE IF \E k \in 1..Len(queries) : ChildFails(queries[k]) THEN Failed(ErrNotOnly)
    ELSE LET sets == CollectDocSets(sn, bh, sh, queries)
         IN IF Len(sets) = 0 THEN NoResults
            ELSE Materialized(sn, bh, sh, UnionAll(sets))

\* executeAnd; the sets are sorted by count before intersectAll, which does
\* not change the intersection
ExecuteAnd(sn, bh, sh, queries) ==
    IF Len(queries) = 0 THEN NoResults
    ELSE IF Len(queries) = 1 THEN ExecuteChild(sn, bh, sh, queries[1])
    ELSE IF SomeEmpty(sn, bh, sh, queries) THEN NoResults
    ELSE Materialized(sn, bh, sh, IntersectAll(CollectDocSets(sn, bh, sh, queries)))

ExecuteAndNot(sn, bh, sh, must, mustNot) ==
    IF SomeEmpty(sn, bh, sh, must) THEN NoResults
    ELSE LET result == IntersectAll(CollectDocSets(sn, bh, sh, must))
         IN IF DocSetIsEmpty(result) THEN NoResults
            ELSE IF \E k \in 1..Len(mustNot) : ChildFails(mustNot[k]) THEN Failed(ErrNotOnly)
            ELSE Materialized(sn, bh, sh, SubtractNot(sn, bh, sh, result, mustNot))

ExecuteOrNot(sn, bh, sh, should, mustNot) ==
    IF \E k \in 1..Len(should) : ChildFails(should[k]) THEN Failed(ErrNotOnly)
    ELSE LET shouldSets == CollectDocSets(sn, bh, sh, should)
         IN IF Len(shouldSets) = 0 THEN NoResults
            ELSE IF \E k \in 1..Len(mustNot) : ChildFails(mustNot[k]) THEN Failed(ErrNotOnly)
            ELSE Materialized(sn, bh, sh,
                     SubtractNot(sn, bh, sh, UnionAll(shouldSets), mustNot))

\* the should step of executeComplex: the result is intersected with the union
\* of the should docsets that are not empty, when there is one
IntersectShould(result, shouldSets) ==
    IF Len(shouldSets) > 0 THEN DocSetIntersect(result, UnionAll(shouldSets))
    ELSE result

ExecuteComplex(sn, bh, sh, must, should, mustNot) ==
    IF SomeEmpty(sn, bh, sh, must) THEN NoResults
    ELSE LET mustResult == IntersectAll(CollectDocSets(sn, bh, sh, must))
         IN IF DocSetIsEmpty(mustResult) THEN NoResults
            ELSE IF \E k \in 1..Len(should) : ChildFails(should[k]) THEN Failed(ErrNotOnly)
            ELSE LET result == IntersectShould(mustResult,
                                               CollectDocSets(sn, bh, sh, should))
                 IN IF DocSetIsEmpty(result) THEN NoResults
                    ELSE IF \E k \in 1..Len(mustNot) : ChildFails(mustNot[k])
                    THEN Failed(ErrNotOnly)
                    ELSE Materialized(sn, bh, sh,
                             SubtractNot(sn, bh, sh, result, mustNot))

\* a test for NOT-only queries that lets every query through
NotOnlyAccepted(must, should, mustNot) == FALSE

\* the first test of boolSearch: only negations are left
NotOnly(must, should, mustNot) ==
    Len(must) = 0 /\ Len(should) = 0 /\ Len(mustNot) > 0

BoolSearch(sn, bh, sh, q) ==
    LET f == FlattenBoolQuery(q)
        must == f.must
        should == f.should
        mustNot == f.mustNot
    IN IF NotOnly(must, should, mustNot) THEN Failed(ErrNotOnly)
       ELSE IF Len(must) = 0 /\ Len(should) > 0 /\ Len(mustNot) = 0
       THEN ExecuteOr(sn, bh, sh, should)
       ELSE IF Len(must) > 0 /\ Len(should) = 0 /\ Len(mustNot) = 0
       THEN ExecuteAnd(sn, bh, sh, must)
       ELSE IF Len(must) > 0 /\ Len(should) = 0 /\ Len(mustNot) > 0
       THEN ExecuteAndNot(sn, bh, sh, must, mustNot)
       ELSE IF Len(must) = 0 /\ Len(should) > 0 /\ Len(mustNot) > 0
       THEN ExecuteOrNot(sn, bh, sh, should, mustNot)
       ELSE IF Len(must) > 0 /\ Len(should) > 0
       THEN ExecuteComplex(sn, bh, sh, must, should, mustNot)
       ELSE NoResults

-----------------------------------------------------------------------------
(* segment postings codec.  A posting is [DocNum, Frequency, Positions]; the *)
(* encoded form is a sequence of bytes.  Here docnums and positions are the  *)
(* code's own numbers (counted from 0) and stay below 2^31, where the        *)
(* conversion uint32(docNum) changes nothing.                                *)

ErrEOF == "EOF"

\* a *roaring.Bitmap argument: nil, or a set of docnums
NilBitmap == [nil |-> TRUE, bits |-> {}]
Bitmap(S) == [nil |-> FALSE, bits |-> S]

\* binary.PutUvarint: 7 bits per byte, low group first, high bit = "more"
RECURSIVE PutUvarint(_)
PutUvarint(v) ==
    IF v < 128 THEN <<v>> ELSE <<(v % 128) + 128>> \o PutUvarint(v \div 128)

\* binary.ReadUvarint and byteReader.ReadUvarint from byte pos of data, with
\* x the value read so far and m = 2^s the weight of the next group
RECURSIVE ReadUvarintFrom(_, _, _, _)
ReadUvarintFrom(data, pos, x, m) ==
    IF pos > Len(data) THEN [err |-> ErrEOF, val |-> 0, pos |-> pos]
    ELSE IF data[pos] < 128
    THEN [err |-> OK, val |-> x + data[pos] * m, pos |-> pos + 1]
    ELSE ReadUvarintFrom(data, pos + 1, x + (data[pos] - 128) * m, m * 128)

ReadUvarint(data, pos) == ReadUvarintFrom(data, pos, 0, 1)

\* the loops of EncodePostings: each value as the difference to the one before
RECURSIVE PutDeltas(_, _)
PutDeltas(vals, prev) ==
    IF vals = <<>> THEN <<>>
    ELSE PutUvarint(Head(vals) - prev) \o PutDeltas(Tail(vals), Head(vals))

RECURSIVE PutValues(_)
PutValues(vals) ==
    IF vals = <<>> THEN <<>> ELSE PutUvarint(Head(vals)) \o PutValues(Tail(vals))

RECURSIVE PutPositions(_)
PutPositions(postings) ==
    IF postings = <<>> THEN <<>>
    ELSE PutUvarint(Len(Head(postings).Positions))
           \o PutDeltas(Head(postings).Positions, 0)
           \o PutPositions(Tail(postings))

\* an encoder that writes each docnum as it is
EncodePostingsAbsolute(postings) ==
    PutUvarint(Len(postings))
      \o PutValues([i \in 1..Len(postings) |-> postings[i].DocNum])
      \o PutValues([i \in 1..Len(postings) |-> postings[i].Frequency])
      \o PutPositions(postings)

EncodePostings(postings) ==
    PutUvarint(Len(postings))
      \o PutDeltas([i \in 1..Len(postings) |-> postings[i].DocNum], 0)
      \o PutValues([i \in 1..Len(postings) |-> postings[i].Frequency])
      \o PutPositions(postings)

\* the loops of DecodePostings: n values read from byte pos on
RECURSIVE ReadValues(_, _, _)
ReadValues(data, pos, n) ==
    IF n = 0 THEN [err |-> OK, vals |-> <<>>, pos |-> pos]
    ELSE LET r == ReadUvarint(data, pos)
         IN IF r.err # OK THEN [err |-> r.err, vals |-> <<>>, pos |-> r.pos]
            ELSE LET rest == ReadValues(data, r.pos, n - 1)
                 IN [err |-> rest.err, vals |-> <<r.val>> \o rest.vals, pos |-> rest.pos]

RECURSIVE ReadDeltas(_, _, _, _)
ReadDeltas(data, pos, n, prev) ==
    IF n = 0 THEN [err |-> OK, vals |-> <<>>, pos |-> pos]
    ELSE LET r == ReadUvarint(data, pos)
         IN IF r.err # OK THEN [err |-> r.err, vals |-> <<>>, pos |-> r.pos]
            ELSE LET rest == ReadDeltas(data, r.pos, n - 1, prev + r.val)
                 IN [err |-> rest.err, vals |-> <<prev + r.val>> \o rest.vals,
                     pos |-> rest.pos]

RECURSIVE ReadPositions(_, _, _)
ReadPositions(data, pos, n) ==
    IF n = 0 THEN [err |-> OK, vals |-> <<>>, pos |-> pos]
    ELSE LET c == ReadUvarint(data, pos)
         IN IF c.err # OK THEN [err |-> c.err, vals |-> <<>>, pos |-> c.pos]
            ELSE LET ps == ReadDeltas(data, c.pos, c.val, 0)
                 IN IF ps.err # OK THEN [err |-> ps.err, vals |-> <<>>, pos |-> ps.pos]
                    ELSE LET rest == ReadPositions(data, ps.pos, n - 1)
                         IN [err |-> rest.err, vals |-> <<ps.vals>> \o rest.vals,
                             pos |-> rest.pos]

Decoded(err, postings) == [err |-> err, postings |-> postings]

DecodePostings(data) ==
    LET count == ReadUvarint(data, 1)
        docs  == ReadDeltas(data, count.pos, count.val, 0)
        freqs == ReadValues(data, docs.pos, count.val)
        poss  == ReadPositions(data, freqs.pos, count.val)
    IN IF count.err # OK THEN Decoded(count.err, <<>>)
       ELSE IF docs.err # OK THEN Decoded(docs.err, <<>>)
       ELSE IF freqs.err # OK THEN Decoded(freqs.err, <<>>)
       ELSE IF poss.err # OK THEN Decoded(poss.err, <<>>)
       ELSE Decoded(OK, [i \in 1..count.val |->
                           Posting(docs.vals[i], freqs.vals[i], poss.vals[i])])

\* the bitmap of a decode: [err, bits]
DecodedBitmap(err, bits) == [err |-> err, bits |-> bits]

\* a bitmap decoder that ignores the deletion bitmap
DecodePostingsBitmapAll(data, deleted) ==
    LET count == ReadUvarint(data, 1)
        docs  == ReadDeltas(data, count.pos, count.val, 0)
    IN DecodedBitmap(OK, Range(docs.vals))

DecodePostingsBitmap(data, deleted) ==
    LET count == ReadUvarint(data, 1)
        docs  == ReadDeltas(data, count.pos, count.val, 0)
    IN IF count.err # OK THEN DecodedBitmap(count.err, {})
       ELSE IF docs.err # OK THEN DecodedBitmap(docs.err, {})
       ELSE DecodedBitmap(OK, {d \in Range(docs.vals) :
                                 deleted.nil \/ d \notin deleted.bits})

-----------------------------------------------------------------------------
(* Phrase search in one field of one container.  A text is the sequence of *)
(* its tokens; texts[d + 1] is the text of docnum d.                       *)

\* Simple.Analyze: the tokens of a text, numbered from 0
Analyze(text) == [i \in 1..Len(text) |-> [Token |-> text[i], Position |-> i - 1]]

\* Builder.Add: termPositions[term] of one text
TermPositions(text, term) ==
    LET hits == SelectSeq(Analyze(text), LAMBDA tp : tp.Token = term)
    IN [i \in 1..Len(hits) |-> hits[i].Position]

\* Builder.Fields[field][term] after Add of every text: one posting per
\* document that holds the term, in docnum order
FieldPostings(texts, term) ==
    LET ds == AscSeq({i \in 1..Len(texts) : term \in Range(texts[i])})
    IN [k \in 1..Len(ds) |->
          Posting(ds[k] - 1, Len(TermPositions(texts[ds[k]], term)),
                  TermPositions(texts[ds[k]], term))]

\* sort.Strings on the vocabulary of the model
TermOrder == <<"a", "b">>

\* writeFieldIndex: the terms of the field, sorted
TermList(texts) ==
    SelectSeq(TermOrder, LAMBDA t : \E i \in 1..Len(texts) : t \in Range(texts[i]))

\* writeFieldIndex: what a term adds to the postings area
Written(texts, term) ==
    IF OneHit(FieldPostings(texts, term)) THEN <<>>
    ELSE EncodePostings(FieldPostings(texts, term))

\* writeFieldIndex: the postings area, one encoded list per term
RECURSIVE WritePostings(_, _)
WritePostings(texts, termList) ==
    IF termList = <<>> THEN <<>>
    ELSE Written(texts, Head(termList)) \o WritePostings(texts, Tail(termList))

\* writeFieldIndex: the offset of a term's list in the postings area
RECURSIVE TermOffset(_, _, _)
TermOffset(texts, termList, term) ==
    IF Head(termList) = term THEN 0
    ELSE Len(Written(texts, Head(termList))) + TermOffset(texts, Tail(termList), term)

\* writeFieldIndex: the value the FST holds for a term
FstValue(texts, term) ==
    IF OneHit(FieldPostings(texts, term))
    THEN EncodeOneHit(FieldPostings(texts, term)[1].DocNum)
    ELSE Offset(TermOffset(texts, TermList(texts), term))

\* Segment.Search on the segment built from texts, deleted being the bitmap
\* of the segment snapshot
SegmentSearch(texts, term, deleted) ==
    IF term \notin Range(TermList(texts)) THEN Decoded(OK, <<>>)
    ELSE LET val == FstValue(texts, term)
             data == WritePostings(texts, TermList(texts))
             dec  == DecodePostings(SubSeq(data, val.v + 1, Len(data)))
         IN IF IsOneHit(val)
            THEN IF ~deleted.nil /\ DecodeOneHit(val) \in deleted.bits
                 THEN Decoded(OK, <<>>)
                 ELSE Decoded(OK, <<Posting(DecodeOneHit(val), 1, <<1>>)>>)
            ELSE IF dec.err # OK THEN dec
            ELSE IF ~deleted.nil /\ deleted.bits # {}
            THEN Decoded(OK, SelectSeq(dec.postings,
                                       LAMBDA p : p.DocNum \notin deleted.bits))
            ELSE dec

\* phraseMatch: positions[i] are the positions of the i-th token in one document
PhraseMatch(positions) ==
    /\ Len(positions) > 0
    /\ \E k \in 1..Len(positions[1]) :
          \A i \in 2..Len(positions) :
             positions[1][k] + (i - 1) \in Range(positions[i])

\* docPositions[docNum][termIdx] as the loops of phraseMatchInSegment and
\* phraseMatchInBuilder fill it
DocPositions(termPostings, docNum) ==
    [i \in 1..Len(termPostings) |->
       LET hits == SelectSeq(termPostings[i], LAMBDA p : p.DocNum = docNum)
       IN IF hits = <<>> THEN <<>> ELSE hits[Len(hits)].Positions]

\* the docnums phraseMatchInSegment reports
PhraseMatchInSegment(texts, deleted, terms) ==
    LET found == [i \in 1..Len(terms) |-> SegmentSearch(texts, terms[i], deleted)]
        termPostings == [i \in 1..Len(terms) |-> found[i].postings]
    IN IF \E i \in 1..Len(terms) : found[i].err # OK \/ found[i].postings = <<>>
       THEN {}
       ELSE {d \in {termPostings[1][k].DocNum : k \in 1..Len(termPostings[1])} :
               /\ \A i \in 1..Len(terms) : DocPositions(termPostings, d)[i] # <<>>
               /\ PhraseMatch(DocPositions(termPostings, d))}

\* the docnums phraseMatchInBuilder reports, deleted being Builder.Deleted
PhraseMatchInBuilder(texts, deleted, terms) ==
    LET termPostings == [i \in 1..Len(terms) |-> FieldPostings(texts, terms[i])]
    IN IF \E i \in 1..Len(terms) : termPostings[i] = <<>>
       THEN {}
       ELSE {d \in {termPostings[1][k].DocNum : k \in 1..Len(termPostings[1])} \ deleted.bits :
               /\ \A i \in 1..Len(terms) : DocPositions(termPostings, d)[i] # <<>>
               /\ PhraseMatch(DocPositions(termPostings, d))}

\* PhraseSearch: a phrase of one token is a term search
PhraseSearchSegment(texts, deleted, terms) ==
    IF Len(terms) = 1
    THEN LET found == SegmentSearch(texts, terms[1], deleted)
         IN {found.postings[k].DocNum : k \in 1..Len(found.postings)}
    ELSE PhraseMatchInSegment(texts, deleted, terms)

PhraseSearchBuilder(texts, deleted, terms) ==
    IF Len(terms) = 1
    THEN LET found == FieldPostings(texts, terms[1])
         IN {found[k].DocNum : k \in 1..Len(found)} \ deleted.bits
    ELSE PhraseMatchInBuilder(texts, deleted, terms)

-----------------------------------------------------------------------------
(* Ordering of results.  A result is [DocID, Score]; the scores are small  *)
(* numbers standing for the floats the scoring computes.                   *)

Result(id, score) == [DocID |-> id, Score |-> score]

\* the comparison function search.sortByScore hands to slices.SortFunc
Cmp(a, b) ==
    IF a.Score > b.Score THEN 0 - 1 ELSE IF a.Score < b.Score THEN 1 ELSE 0

\* search.sortByScore: slices.SortFunc leaves the elements in an order in
\* which no element compares less than one before it, and promises nothing
\* about equal elements; every such order is a possible outcome
SortByScore(results) ==
    {out \in {[i \in 1..Len(results) |-> results[p[i]]] :
                p \in Permutations(1..Len(results))} :
       \A i, j \in 1..Len(out) : i < j => Cmp(out[j], out[i]) >= 0}

\* the test of the inner loop of query.sortByScore
SwapsSmaller(a, b) == b.Score < a.Score

Swaps(a, b) == b.Score > a.Score

\* query.sortByScore from the loop positions i < j on
RECURSIVE ExchangeFrom(_, _, _)
ExchangeFrom(results, i, j) ==
    IF i >= Len(results) THEN results
    ELSE IF j > Len(results) THEN ExchangeFrom(results, i + 1, i + 2)
    ELSE IF Swaps(results[i], results[j])
    THEN ExchangeFrom([results EXCEPT ![i] = results[j], ![j] = results[i]], i, j + 1)
    ELSE ExchangeFrom(results, i, j + 1)

\* query.sortByScore
ExecutorSortByScore(results) == ExchangeFrom(results, 1, 2)

\* Executor.executeAndNot and executeOrNot: the sorted positive results
\* without the excluded ids
Filtered(positiveResults, excludeSet) ==
    SelectSeq(positiveResults, LAMBDA r : r.DocID \notin excludeSet)

-----------------------------------------------------------------------------
(* A term search in a named field, with the errors of the segment reader *)

ErrFieldNotFound == "field not found"

\* Segment.getFST: a segment has a term dictionary for "_id" and for "body"
GetFST(c, fieldName) ==
    IF fieldName \in Range(SegFields) THEN OK ELSE ErrFieldNotFound

\* Segment.Search: [err, docs]
SegmentSearchField(ss, c, t, fieldName) ==
    IF GetFST(c, fieldName) # OK THEN [err |-> GetFST(c, fieldName), docs |-> {}]
    ELSE [err |-> OK, docs |-> SegSearch(ss, c, fieldName, t)]

\* Searcher.searchSegmentField: the ids of the postings, none when the
\* segment reports an error
SearchSegmentField(ss, c, t, fieldName) ==
    LET found == SegmentSearchField(ss, c, t, fieldName)
    IN IF found.err # OK \/ found.docs = {} THEN <<>> ELSE IdsOf(c, found.docs)

\* Searcher.Search with a field given: [err, ids]
FieldSearch(sn, bh, sh, t, fieldName) ==
    LET n == Len(sn.segments)
        fromSegs == Flatten([k \in 1..n |->
                       SearchSegmentField(sn.segments[n + 1 - k],
                                          sh[sn.segments[n + 1 - k].seg], t, fieldName)])
        fromBuilder == IF sn.builder = Nil THEN <<>>
                       ELSE SearchBuilder(bh[sn.builder], t, fieldName)
    IN [err |-> OK, ids |-> SeenFilter(fromSegs \o fromBuilder)]

-----------------------------------------------------------------------------
(* Scoring.  The floats of the code are fractions [num, den] with den > 0; *)
(* the logarithm of the idf is kept as its argument.                       *)

\* BM25_k1 = 1.2 and BM25_b = 0.75 as fractions
K1Num == 6
K1Den == 5
BNum == 3
BDen == 4

Frac(num, den) == [num |-> num, den |-> den]

\* getAvgFieldLength: Segment.AvgFieldLength is total_tokens / doc_count (0
\* without documents), and 0 is replaced by 1
AvgFieldLength(totalTokens, docCount) ==
    IF docCount = 0 \/ totalTokens = 0 THEN Frac(1, 1) ELSE Frac(totalTokens, docCount)

\* the argument of math.Log in the BM25 idf:
\* 1 + (totalDocs - df + 0.5) / (df + 0.5)
IdfArg(totalDocs, df) == Frac(2 * totalDocs + 2, 2 * df + 1)

\* a weight that grows with tf without bound: tf * (k1 + 1) / (1 + k1 * (...))
Bm25WeightLinear(tf, fieldLength, avg) ==
    LET len == IF fieldLength = 0 THEN avg ELSE Frac(fieldLength, 1)
    IN Frac(tf * (K1Num + K1Den) * BDen * avg.num * len.den,
            K1Den * BDen * avg.num * len.den
              + K1Num * ((BDen - BNum) * avg.num * len.den + BNum * len.num * avg.den))

\* what scoreAndSort multiplies the idf by:
\* tf * (k1 + 1) / (tf + k1 * (1 - b + b * fieldLen / avgFieldLength))
Bm25Weight(tf, fieldLength, avg) ==
    LET len == IF fieldLength = 0 THEN avg ELSE Frac(fieldLength, 1)
    IN Frac(tf * (K1Num + K1Den) * BDen * avg.num * len.den,
            tf * K1Den * BDen * avg.num * len.den
              + K1Num * ((BDen - BNum) * avg.num * len.den + BNum * len.num * avg.den))

\* the BM25 score of one match: [idf, weight], standing for ln(idf) * weight
Bm25Score(totalDocs, df, tf, fieldLength, avg) ==
    [idf |-> IdfArg(totalDocs, df), weight |-> Bm25Weight(tf, fieldLength, avg)]

-----------------------------------------------------------------------------
(* Initial state: index.New on an empty directory *)

NoScenario == [stage |-> "idle", id |-> "none"]

\* no library function is under evaluation
NoCall == [fn |-> "none"]

\* the index New returns
Opened ==
    /\ closed = FALSE
    /\ crashed = FALSE
    /\ segments = <<>>
    /\ builder = 1
    /\ builders = (1 :> NewBuilder)
    /\ epoch = 0
    /\ pendingDeletions = <<>>
    /\ segs = <<>>
    /\ files = <<>>
    /\ metaEpoch = 0
    /\ metaSegments = <<>>
    /\ metaDeletions = <<>>
    /\ metaDocIDs = <<>>
    /\ metaOpen = TRUE
    /\ snap = NoSnap
    /\ fmIDs = NoIDs
    /\ added = 0
    /\ live = [id \in ExtIds |-> Absent]
    /\ scenario = NoScenario

Init == Opened /\ call = NoCall /\ ret = Unwatched

\* the same, with a caller that records what every operation returns
InitWatched == Opened /\ call = NoCall /\ ret = Returned("New", OK)

\* how a flush or a merge may fail: not at all, in the metadata transaction,
\* or in segment.Open of the file just written
Failures == {"none", "tx", "open"}

-----------------------------------------------------------------------------
(* Index.flushInternal, on builder contents b and pending deletions pend *)

\* a list that takes the new segment at its head
PrependSegment(segList, segmentID) == <<segmentID>> \o segList

\* append(currentSegmentIDs, segmentID), append(idx.segments, seg) and, in
\* Merge, append(newSegments, newSeg): the new segment goes last
AppendSegment(segList, segmentID) == Append(segList, segmentID)

\* a flush transaction that stores the builder's deletions and skips the pending ones
FlushedDeletionsNoPending(b, pend, segmentID) ==
    LET own == IF b.Deleted # {} THEN {segmentID} ELSE {}
    IN [s \in (DOMAIN metaDeletions) \cup own |->
          IF s \in own THEN b.Deleted ELSE metaDeletions[s]]

\* the deletions bucket after the flush transaction
FlushedDeletions(b, pend, segmentID) ==
    LET touched == {s \in DOMAIN pend : pend[s] # {}}
        own == IF b.Deleted # {} THEN {segmentID} ELSE {}
    IN [s \in (DOMAIN metaDeletions) \cup touched \cup own |->
          IF s \in own THEN b.Deleted
          ELSE BitmapAt(metaDeletions, s) \cup BitmapAt(pend, s)]

FlushInternal(b, pend, fail, op) ==
    LET segmentID == metaEpoch + 1
        nb == FreshBuilder(snap)
    IN
    /\ UNCHANGED <<closed, crashed, metaDocIDs, metaOpen>>
    /\ IF BuilderNumDocs(b) = 0
       THEN \* nothing to flush
            /\ Out(op, OK)
            /\ builders' = [builders EXCEPT ![builder] = b]
            /\ pendingDeletions' = pend
            /\ UNCHANGED <<segments, builder, epoch, segs, files, metaEpoch,
                           metaSegments, metaDeletions>>
       ELSE IF fail = "tx"
       THEN \* the update is rolled back and the file removed
            /\ Out(op, ErrTx)
            /\ builders' = [builders EXCEPT ![builder] = b]
            /\ pendingDeletions' = pend
            /\ files' = Restrict(files, (DOMAIN files) \ {segmentID})
            /\ UNCHANGED <<segments, builder, epoch, segs, metaEpoch,
                           metaSegments, metaDeletions>>
       ELSE
            /\ metaEpoch' = IncrementEpoch(metaEpoch)
            /\ metaDeletions' = FlushedDeletions(b, pend, segmentID)
            /\ metaSegments' = AppendSegment(metaSegments, segmentID)
            /\ files' = [s \in (DOMAIN files) \cup {segmentID} |->
                           IF s = segmentID THEN BuildContent(b) ELSE files[s]]
            /\ IF fail = "open"
               THEN \* the store is updated, the index is not
                    /\ Out(op, ErrOpen)
                    /\ builders' = [builders EXCEPT ![builder] = b]
                    /\ pendingDeletions' = pend
                    /\ UNCHANGED <<segments, builder, epoch, segs>>
               ELSE /\ Out(op, OK)
                    /\ segments' = AppendSegment(segments, segmentID)
                    /\ segs' = LiveSegs([s \in (DOMAIN segs) \cup {segmentID} |->
                                           IF s = segmentID THEN OpenHandle(BuildContent(b))
                                           ELSE segs[s]],
                                        Append(segments, segmentID), snap)
                    /\ epoch' = IncrementEpoch(metaEpoch)
                    /\ pendingDeletions' = <<>>
                    /\ builder' = nb
                    /\ builders' = LiveBuilders(
                           [a \in (DOMAIN builders) \cup {nb} |->
                              IF a = nb THEN NewBuilder
                              ELSE IF a = builder THEN b ELSE builders[a]],
                           nb, snap)

-----------------------------------------------------------------------------
(* Operations of the index *)

\* an operation that only returns
Returns(op, err) ==
    /\ Out(op, err)
    /\ UNCHANGED <<closed, crashed, segments, builder, builders, epoch,
                   pendingDeletions, segs, files, metaEpoch, metaSegments,
                   metaDeletions, metaDocIDs, metaOpen>>

\* an operation that dies in a read of an unmapped segment
Panics(op) ==
    /\ Out(op, ErrPanic)
    /\ crashed' = TRUE
    /\ UNCHANGED <<closed, segments, builder, builders, epoch,
                   pendingDeletions, segs, files, metaEpoch, metaSegments,
                   metaDeletions, metaDocIDs, metaOpen>>

\* a threshold test that lets the builder reach the threshold
ThresholdPassed(numDocs, flushThreshold) == numDocs > flushThreshold

\* idx.builder.NumDocs() >= uint64(idx.flushThreshold): the conversion turns
\* a negative threshold into a number no count reaches
ThresholdReached(numDocs, flushThreshold) ==
    IF flushThreshold < 0 THEN FALSE ELSE numDocs >= flushThreshold

\* Index.Index on an index opened with Config.FlushThreshold = flushThreshold
IndexAt(flushThreshold, docID, doc, fail) ==
    /\ ~crashed
    /\ added < MaxAdded
    /\ UNCHANGED <<snap, fmIDs>>
    /\ IF closed
       THEN fail = "none" /\ Returns("Index", ErrClosed) /\ UNCHANGED added
       ELSE IF ObsoletesPanic
       THEN fail = "none" /\ Panics("Index") /\ UNCHANGED added
       ELSE /\ added' = added + 1
            /\ LET b == BuilderAdd(BuilderDelete(builders[builder], docID), docID, doc)
                   pend == MarkObsoletes(pendingDeletions, {docID})
               IN
               IF ThresholdReached(BuilderNumDocs(b), flushThreshold)
               THEN /\ metaEpoch < MaxEpoch
                    /\ FlushInternal(b, pend, fail, "Index")
               ELSE /\ Out("Index", OK)
                    /\ fail = "none"
                    /\ builders' = [builders EXCEPT ![builder] = b]
                    /\ pendingDeletions' = pend
                    /\ UNCHANGED <<closed, crashed, segments, builder, epoch,
                                   segs, files, metaEpoch, metaSegments,
                                   metaDeletions, metaDocIDs, metaOpen>>

Index(docID, doc, fail) == IndexAt(FlushThreshold, docID, doc, fail)

Delete(docID) ==
    /\ ~crashed
    /\ UNCHANGED <<snap, fmIDs, added>>
    /\ IF closed
       THEN Returns("Delete", ErrClosed)
       ELSE IF ObsoletesPanic
       THEN Panics("Delete")
       ELSE /\ Out("Delete", OK)
            /\ builders' = [builders EXCEPT ![builder] = BuilderDelete(@, docID)]
            /\ pendingDeletions' = MarkObsoletes(pendingDeletions, {docID})
            /\ UNCHANGED <<closed, crashed, segments, builder, epoch,
                           segs, files, metaEpoch, metaSegments,
                           metaDeletions, metaDocIDs, metaOpen>>

Flush(fail) ==
    /\ ~crashed
    /\ UNCHANGED <<snap, fmIDs, added>>
    /\ IF closed
       THEN fail = "none" /\ Returns("Flush", ErrClosed)
       ELSE /\ IF BuilderNumDocs(builders[builder]) = 0
               THEN fail = "none"
               ELSE metaEpoch < MaxEpoch
            /\ FlushInternal(builders[builder], pendingDeletions, fail, "Flush")

Snapshot==
    /\ ~crashed
    /\ UNCHANGED <<fmIDs, added>>
    /\ IF closed
       THEN Returns("Snapshot", ErrClosed) /\ UNCHANGED snap
       ELSE /\ Out("Snapshot", OK)
            /\ snap' = TakeSnapshot
            /\ segs' = LiveSegs(segs, segments, snap')
            /\ builders' = LiveBuilders(builders, builder, snap')
            /\ UNCHANGED <<closed, crashed, segments, builder, epoch,
                           pendingDeletions, files, metaEpoch, metaSegments,
                           metaDeletions, metaDocIDs, metaOpen>>

\* IndexSnapshot.Close: the reader is done with its snapshot
SnapshotClose ==
    /\ ~crashed
    /\ snap # NoSnap
    /\ snap' = NoSnap
    /\ segs' = LiveSegs(segs, segments, NoSnap)
    /\ builders' = LiveBuilders(builders, builder, NoSnap)
    /\ Out("SnapshotClose", OK)
    /\ UNCHANGED <<closed, crashed, segments, builder, epoch, pendingDeletions,
                   files, metaEpoch, metaSegments, metaDeletions, metaDocIDs,
                   metaOpen, fmIDs, added>>

Close==
    /\ Out("Close", OK)
    /\ ~crashed
    /\ UNCHANGED <<crashed, epoch, files, metaEpoch, metaSegments, metaDeletions,
                   metaDocIDs, snap, fmIDs, added>>
    /\ IF closed
       THEN UNCHANGED <<closed, segments, builder, builders, pendingDeletions,
                        segs, metaOpen>>
       ELSE /\ closed' = TRUE
            /\ pendingDeletions' = <<>>
            /\ builder' = Nil
            /\ builders' = LiveBuilders(builders, Nil, snap)
            /\ segs' = LiveSegs([s \in DOMAIN segs |->
                                   IF s \in Range(segments) THEN CloseHandle(segs[s])
                                   ELSE segs[s]],
                                <<>>, snap)
            /\ segments' = <<>>
            /\ metaOpen' = FALSE

\* New on the directory of a closed index: the segments the store lists are
\* opened, the epoch is read from the store, the builder and the pending map
\* are new
New ==
    /\ ~crashed
    /\ closed
    /\ Range(metaSegments) \subseteq DOMAIN files
    /\ Out("New", OK)
    /\ closed' = FALSE
    /\ metaOpen' = TRUE
    /\ segments' = metaSegments
    /\ segs' = [s \in Range(metaSegments) |-> OpenHandle(files[s])]
    /\ epoch' = metaEpoch
    /\ builder' = 1
    /\ builders' = (1 :> NewBuilder)
    /\ pendingDeletions' = <<>>
    /\ UNCHANGED <<crashed, files, metaEpoch, metaSegments, metaDeletions,
                   metaDocIDs, snap, fmIDs, added>>

-----------------------------------------------------------------------------
(* Index.Merge *)

\* the documents of segment content c that survive the bitmap deleted, in docnum order
Survivors(c, deleted) == AscSeq({d \in 1..SegNumDocs(c) : d \notin deleted})

\* the deletion bitmap Merge reads for a chosen segment
MergeDeletions(segID) == PersistedDeletions(segID)

\* the documents re-added from the chosen segments, taken in index order,
\* when deleted[s] is the bitmap consulted for segment s
ReAdded(chosen, deleted) ==
    LET part(s) == LET live_ == Survivors(segs[s], deleted[s])
                   IN [DocIDs |-> [k \in 1..Len(live_) |-> segs[s].DocIDs[live_[k]]],
                       Docs |-> [k \in 1..Len(live_) |-> segs[s].Docs[live_[k]]]]
    IN [DocIDs |-> Flatten([k \in 1..Len(chosen) |-> part(chosen[k]).DocIDs]),
        Docs |-> Flatten([k \in 1..Len(chosen) |-> part(chosen[k]).Docs])]

\* the builder Merge fills
MergedContent(chosen) ==
    ReAdded(chosen, [s \in Range(chosen) |-> MergeDeletions(s)])

\* the subsequence of the index's segments whose id is in ids
RECURSIVE Chosen(_, _)
Chosen(segList, ids) ==
    IF segList = <<>> THEN <<>>
    ELSE (IF Head(segList) \in ids THEN <<Head(segList)>> ELSE <<>>)
         \o Chosen(Tail(segList), ids)

\* the docids bucket after SetDocMapping for every document of content c in segment id
MappedDocIDs(c, newID) ==
    [e \in (DOMAIN metaDocIDs) \cup Range(c.DocIDs) |->
       IF e \in Range(c.DocIDs)
       THEN <<newID, Max({d \in 1..Len(c.DocIDs) : c.DocIDs[d] = e})>>
       ELSE metaDocIDs[e]]

\* what Merge does with the handles of the merged segments before the transaction
MergeClosesOld(h) == CloseHandle(h)

\* what Merge does with the file it wrote when the transaction fails
MergeFailedFiles(fs, newID) == fs

MergeBody(ids, fail, op) ==
    LET chosen == Chosen(segments, ids)
        newID == metaEpoch + 1
        content == MergedContent(chosen)
        survivors == Chosen(segments, Range(segments) \ ids)
        newSegments == AppendSegment(survivors, newID)
        written == [s \in (DOMAIN files) \cup {newID} |->
                      IF s = newID THEN content ELSE files[s]]
        closedOld == [s \in DOMAIN segs |->
                        IF s \in ids /\ s \in Range(segments)
                        THEN MergeClosesOld(segs[s]) ELSE segs[s]]
    IN
    IF closed THEN Returns(op, ErrClosed)
    ELSE IF Cardinality(ids) < 2 THEN Returns(op, ErrTooFew)
    ELSE IF Len(chosen) # Cardinality(ids) THEN Returns(op, ErrNotFound)
    ELSE IF \E k \in 1..Len(chosen) :
               ~Mapped(segs[chosen[k]])
               /\ Survivors(segs[chosen[k]], MergeDeletions(chosen[k])) # <<>>
    THEN \* LoadDoc on a handle an earlier failed merge closed
         Panics(op)
    ELSE IF fail = "open"
    THEN /\ Out(op, ErrOpen)
         /\ files' = written
         /\ UNCHANGED <<closed, crashed, segments, builder, builders, epoch,
                        pendingDeletions, segs, metaEpoch, metaSegments,
                        metaDeletions, metaDocIDs, metaOpen>>
    ELSE IF fail = "tx"
    THEN /\ Out(op, ErrTx)
         /\ files' = MergeFailedFiles(written, newID)
         /\ segs' = closedOld
         /\ UNCHANGED <<closed, crashed, segments, builder, builders, epoch,
                        pendingDeletions, metaEpoch, metaSegments,
                        metaDeletions, metaDocIDs, metaOpen>>
    ELSE /\ Out(op, OK)
         /\ metaEpoch' = IncrementEpoch(metaEpoch)
         /\ metaDocIDs' = MappedDocIDs(content, newID)
         /\ metaDeletions' = Restrict(metaDeletions, (DOMAIN metaDeletions) \ ids)
         /\ metaSegments' = newSegments
         /\ segments' = newSegments
         /\ epoch' = IncrementEpoch(metaEpoch)
         /\ files' = Restrict(written, (DOMAIN written) \ ids)
         /\ segs' = LiveSegs([s \in (DOMAIN segs) \cup {newID} |->
                                IF s = newID THEN OpenHandle(content) ELSE closedOld[s]],
                             newSegments, snap)
         /\ UNCHANGED <<closed, crashed, builder, builders, pendingDeletions, metaOpen>>

\* the calls of Merge that get past its argument checks
MergeRuns(ids) ==
    ~closed /\ Cardinality(ids) >= 2 /\ Len(Chosen(segments, ids)) = Cardinality(ids)

\* the bounds of the model allow this merge
MergeInBounds(ids) ==
    /\ metaEpoch < MaxEpoch
    /\ \A s \in ids : segs[s].closes < MaxCloses

Merge(ids, fail) ==
    /\ ~crashed
    /\ IF MergeRuns(ids) THEN MergeInBounds(ids) ELSE fail = "none"
    /\ MergeBody(ids, fail, "Merge")
    /\ UNCHANGED <<snap, fmIDs, added>>

\* Index.ForceMerge, first half: the segment ids are read under the read lock
ForceMergeBegin==
    /\ ~crashed
    /\ fmIDs = NoIDs
    /\ UNCHANGED <<snap, added>>
    /\ IF Len(segments) < 2
       THEN Returns("ForceMerge", OK) /\ UNCHANGED fmIDs
       ELSE /\ Out("ForceMerge", Running)
            /\ fmIDs' = segments
            /\ UNCHANGED <<closed, crashed, segments, builder, builders, epoch,
                           pendingDeletions, segs, files, metaEpoch, metaSegments,
                           metaDeletions, metaDocIDs, metaOpen>>

\* a ForceMerge that has read its ids may finish after the flushes and merges
\* that ran meanwhile have used up the epochs: it gets one epoch more
ForceMergeInBounds(ids) ==
    /\ metaEpoch <= MaxEpoch
    /\ \A s \in ids : segs[s].closes < MaxCloses

\* Index.ForceMerge, second half: Merge of the ids read before
ForceMergeEnd(fail) ==
    /\ ~crashed
    /\ fmIDs # NoIDs
    /\ IF MergeRuns(Range(fmIDs)) THEN ForceMergeInBounds(Range(fmIDs)) ELSE fail = "none"
    /\ MergeBody(Range(fmIDs), fail, "ForceMerge")
    /\ fmIDs' = NoIDs
    /\ UNCHANGED <<snap, added>>

\* Index.LoadDoc
LoadDoc(segID, docNum) ==
    /\ ~crashed
    /\ UNCHANGED <<snap, fmIDs, added>>
    /\ IF segID \notin Range(segments) THEN Returns("LoadDoc", ErrSegNotFound)
       ELSE IF docNum > SegNumDocs(segs[segID]) THEN Returns("LoadDoc", ErrDocNum)
       ELSE IF ~Mapped(segs[segID]) THEN Panics("LoadDoc")
       ELSE Returns("LoadDoc", OK)

\* Index.SegmentStats
SegmentStats(segID) ==
    /\ ~crashed
    /\ UNCHANGED <<snap, fmIDs, added>>
    /\ IF segID \notin Range(segments) THEN Returns("SegmentStats", ErrSegNotFound)
       ELSE Returns("SegmentStats", OK)

-----------------------------------------------------------------------------
(* What was indexed and deleted so far *)

\* the content id was last indexed with
Indexed(docID, doc) == live' = IF crashed' THEN live ELSE [live EXCEPT ![docID] = doc]

\* id was deleted
Deleted(docID) == live' = IF crashed' THEN live ELSE [live EXCEPT ![docID] = Absent]

-----------------------------------------------------------------------------
(* Writers, merges and one reader; no operation fails *)

Next ==
    \/ \E docID \in ExtIds, doc \in Vals :
          Index(docID, doc, "none") /\ Indexed(docID, doc) /\ UNCHANGED <<scenario, call>>
    \/ \E docID \in ExtIds :
          Delete(docID) /\ Deleted(docID) /\ UNCHANGED <<scenario, call>>
    \/ Flush("none") /\ UNCHANGED <<live, scenario, call>>
    \/ Snapshot /\ UNCHANGED <<live, scenario, call>>
    \/ SnapshotClose /\ UNCHANGED <<live, scenario, call>>
    \/ \E ids \in SUBSET SegIds :
          Merge(ids, "none") /\ UNCHANGED <<live, scenario, call>>

Spec == Init /\ [][Next]_vars

-----------------------------------------------------------------------------
(* Writers and one reader, no merge *)

NextWriters ==
    \/ \E docID \in ExtIds, doc \in Vals :
          Index(docID, doc, "none") /\ Indexed(docID, doc) /\ UNCHANGED <<scenario, call>>
    \/ \E docID \in ExtIds :
          Delete(docID) /\ Deleted(docID) /\ UNCHANGED <<scenario, call>>
    \/ Flush("none") /\ UNCHANGED <<live, scenario, call>>
    \/ Snapshot /\ UNCHANGED <<live, scenario, call>>
    \/ SnapshotClose /\ UNCHANGED <<live, scenario, call>>

SpecWriters == Init /\ [][NextWriters]_vars

-----------------------------------------------------------------------------
(* The run Delete(id); Flush; ForceMerge, followed step by step *)

\* the run goes on when the operation that just returned is its next one
Follows(from, to, docID) ==
    scenario' = IF crashed' \/ closed THEN NoScenario
                ELSE IF to = "deleted" THEN [stage |-> to, id |-> docID]
                ELSE IF scenario.stage = from THEN [stage |-> to, id |-> scenario.id]
                ELSE NoScenario

NextScenario ==
    \/ \E docID \in ExtIds, doc \in Vals :
          /\ Index(docID, doc, "none")
          /\ scenario' = NoScenario
          /\ UNCHANGED <<live, call>>
    \/ \E docID \in ExtIds :
          Delete(docID) /\ Follows("idle", "deleted", docID) /\ UNCHANGED <<live, call>>
    \/ Flush("none") /\ Follows("deleted", "flushed", "none") /\ UNCHANGED <<live, call>>
    \/ /\ ForceMergeBegin
       /\ IF fmIDs' = NoIDs
          THEN scenario' = NoScenario
          ELSE Follows("flushed", "merging", "none")
       /\ UNCHANGED <<live, call>>
    \/ ForceMergeEnd("none") /\ Follows("merging", "merged", "none") /\ UNCHANGED <<live, call>>

SpecScenario == Init /\ [][NextScenario]_vars

-----------------------------------------------------------------------------
(* Writers, Close and New on the same directory; the run Delete(id); Flush; *)
(* Close; New of an id that is live in a segment is followed step by step   *)

\* id is a document of an open segment and not deleted there
InPersistedSegment(docID) ==
    \E s \in Range(segments) : DocNumbers(segs[s], {docID}) \ GetDeletions(s) # {}

NextReopen ==
    \/ \E docID \in ExtIds, doc \in Vals :
          /\ Index(docID, doc, "none")
          /\ scenario' = NoScenario
          /\ UNCHANGED <<live, call>>
    \/ \E docID \in ExtIds :
          /\ Delete(docID)
          /\ scenario' = IF ~closed /\ InPersistedSegment(docID)
                         THEN [stage |-> "deleted", id |-> docID] ELSE NoScenario
          /\ UNCHANGED <<live, call>>
    \/ Flush("none") /\ Follows("deleted", "flushed", "none") /\ UNCHANGED <<live, call>>
    \/ Close /\ Follows("flushed", "closed", "none") /\ UNCHANGED <<live, call>>
    \/ /\ New
       /\ scenario' = IF scenario.stage = "closed"
                      THEN [stage |-> "reopened", id |-> scenario.id] ELSE NoScenario
       /\ UNCHANGED <<live, call>>

SpecReopen == Init /\ [][NextReopen]_vars

-----------------------------------------------------------------------------
(* The operations of the handle, with failures of the metadata transaction *)
(* and of segment.Open, watched by a caller; no reader holds a snapshot    *)

\* the one content indexed here
FaultDocs == {{"a"}}

NextFaults ==
    \/ \E docID \in ExtIds, doc \in FaultDocs, fail \in Failures :
          Index(docID, doc, fail) /\ UNCHANGED <<live, scenario, call>>
    \/ \E docID \in ExtIds : Delete(docID) /\ UNCHANGED <<live, scenario, call>>
    \/ \E fail \in Failures : Flush(fail) /\ UNCHANGED <<live, scenario, call>>
    \/ Close /\ UNCHANGED <<live, scenario, call>>
    \/ \E ids \in SUBSET SegIds, fail \in Failures :
          Merge(ids, fail) /\ UNCHANGED <<live, scenario, call>>
    \/ ForceMergeBegin /\ UNCHANGED <<live, scenario, call>>
    \/ \E fail \in Failures : ForceMergeEnd(fail) /\ UNCHANGED <<live, scenario, call>>
    \/ \E segID \in SegIds, docNum \in 1..MaxAdded :
          LoadDoc(segID, docNum) /\ UNCHANGED <<live, scenario, call>>
    \/ \E segID \in SegIds : SegmentStats(segID) /\ UNCHANGED <<live, scenario, call>>

SpecFaults == InitWatched /\ [][NextFaults]_vars

-----------------------------------------------------------------------------
(* One writer; a reader queries the snapshot of the current state *)

NextSearch ==
    \/ \E docID \in ExtIds, doc \in Vals :
          Index(docID, doc, "none") /\ Indexed(docID, doc) /\ UNCHANGED <<scenario, call>>
    \/ \E docID \in ExtIds :
          Delete(docID) /\ Deleted(docID) /\ UNCHANGED <<scenario, call>>
    \/ Flush("none") /\ UNCHANGED <<live, scenario, call>>

SpecSearch == Init /\ [][NextSearch]_vars

-----------------------------------------------------------------------------
(* A phrase is searched in a segment and in a builder that hold the same texts *)

PhraseTokens == {"a", "b"}
Texts == UNION {[1..n -> PhraseTokens] : n \in 0..MaxTokens}
Corpora == [1..NumTexts -> Texts]
Phrases == UNION {[1..n -> PhraseTokens] : n \in 1..MaxPhrase}

InitPhrase ==
    /\ Opened
    /\ ret = Unwatched
    /\ \E texts \in Corpora, bits \in SUBSET (0..(NumTexts - 1)), terms \in Phrases :
          call = [fn |-> "PhraseSearch", at |-> "input", texts |-> texts,
                  deleted |-> Bitmap(bits), terms |-> terms, out |-> {}]

PhraseInSegment ==
    /\ call.at = "input"
    /\ call' = [call EXCEPT !.at = "segment",
                            !.out = PhraseSearchSegment(call.texts, call.deleted, call.terms)]
    /\ UNCHANGED handle

PhraseInBuilder ==
    /\ call.at = "input"
    /\ call' = [call EXCEPT !.at = "builder",
                            !.out = PhraseSearchBuilder(call.texts, call.deleted, call.terms)]
    /\ UNCHANGED handle

NextPhrase == PhraseInSegment \/ PhraseInBuilder

SpecPhrase == InitPhrase /\ [][NextPhrase]_vars

-----------------------------------------------------------------------------
(* A posting list is encoded, and the bytes are decoded in full or into a *)
(* bitmap of docnums                                                      *)

\* values of one, two and three bytes
DocNums == {0, 1, 128, 20000}
Frequencies == {1, 130}
PositionPool == {0, 1, 200}

PositionLists ==
    {AscSeq(P) : P \in {Q \in SUBSET PositionPool : Cardinality(Q) <= MaxPositions}}

\* the lists with strictly increasing docnums and positions
PostingLists ==
    UNION {{[i \in 1..Cardinality(D) |->
               Posting(AscSeq(D)[i], rest[i][1], rest[i][2])] :
             rest \in [1..Cardinality(D) -> Frequencies \X PositionLists]} :
           D \in {E \in SUBSET DocNums : Cardinality(E) <= MaxPostings}}

DeletionBitmaps == {NilBitmap} \cup {Bitmap(S) : S \in SUBSET {1, 128}}

InitCodec ==
    /\ Opened
    /\ ret = Unwatched
    /\ \E postings \in PostingLists, deleted \in DeletionBitmaps :
          call = [fn |-> "EncodePostings", at |-> "input", postings |-> postings,
                  deleted |-> deleted, data |-> <<>>, out |-> Decoded(OK, <<>>)]

Encode ==
    /\ call.at = "input"
    /\ call' = [call EXCEPT !.at = "encoded", !.data = EncodePostings(call.postings)]
    /\ UNCHANGED handle

Decode ==
    /\ call.at = "encoded"
    /\ call' = [call EXCEPT !.at = "decoded", !.out = DecodePostings(call.data)]
    /\ UNCHANGED handle

DecodeBitmap ==
    /\ call.at = "encoded"
    /\ call' = [call EXCEPT !.at = "bitmap",
                            !.out = DecodePostingsBitmap(call.data, call.deleted)]
    /\ UNCHANGED handle

NextCodec == Encode \/ Decode \/ DecodeBitmap

SpecCodec == InitCodec /\ [][NextCodec]_vars

-----------------------------------------------------------------------------
(* The scored matches of a query are put in order *)

\* results in the order the matches were collected; the i-th has the id i
ScoredLists ==
    UNION {{[i \in 1..n |-> Result(i, sc[i])] : sc \in [1..n -> 0..MaxScore]} :
           n \in 0..MaxResults}

InitSort ==
    /\ Opened
    /\ ret = Unwatched
    /\ \E results \in ScoredLists :
          call = [fn |-> "sortByScore", at |-> "input", results |-> results,
                  out |-> <<>>]

\* Searcher.scoreAndSort ends with search.sortByScore
ScoreAndSort ==
    /\ call.at = "input"
    /\ \E out \in SortByScore(call.results) :
          call' = [call EXCEPT !.at = "searcher", !.out = out]
    /\ UNCHANGED handle

\* Executor.executeOr, executeAnd and executeComplex end with query.sortByScore
ExecutorSort ==
    /\ call.at = "input"
    /\ call' = [call EXCEPT !.at = "executor", !.out = ExecutorSortByScore(call.results)]
    /\ UNCHANGED handle

\* Executor.executeAndNot and executeOrNot filter the sorted list
ExecutorExclude ==
    /\ call.at = "executor"
    /\ \E excludeSet \in SUBSET (1..MaxResults) :
          call' = [call EXCEPT !.at = "filtered", !.out = Filtered(call.out, excludeSet)]
    /\ UNCHANGED handle

NextSort == ScoreAndSort \/ ExecutorSort \/ ExecutorExclude

SpecSort == InitSort /\ [][NextSort]_vars

-----------------------------------------------------------------------------
(* An index opened with any flush threshold the configuration accepts; the *)
(* flush may fail; a caller watches what the operations return             *)

\* New takes Config.FlushThreshold as it is given
Thresholds == (0 - 1)..FlushThreshold

InitThreshold ==
    /\ Opened
    /\ ret = Returned("New", OK)
    /\ \E n \in Thresholds : call = [fn |-> "New", flushThreshold |-> n]

NextThreshold ==
    \/ \E docID \in ExtIds, doc \in FaultDocs, fail \in Failures :
          IndexAt(call.flushThreshold, docID, doc, fail) /\ UNCHANGED <<live, scenario, call>>
    \/ \E docID \in ExtIds : Delete(docID) /\ UNCHANGED <<live, scenario, call>>
    \/ \E fail \in Failures : Flush(fail) /\ UNCHANGED <<live, scenario, call>>

SpecThreshold == InitThreshold /\ [][NextThreshold]_vars

-----------------------------------------------------------------------------
(* Two matches of one query are scored under BM25: one with term frequency *)
(* tf, one with term frequency 1, in fields of the same length             *)

InitScore ==
    /\ Opened
    /\ ret = Unwatched
    /\ \E tf \in 1..MaxTf, fieldLength \in 0..MaxFieldLen,
          docCount \in 0..MaxDocs, totalTokens \in 0..(MaxDocs * MaxFieldLen),
          totalDocs \in 0..MaxDocs, df \in 1..MaxDocs :
          call = [fn |-> "scoreAndSort", at |-> "input", tf |-> tf,
                  fieldLength |-> fieldLength, totalDocs |-> totalDocs, df |-> df,
                  avg |-> AvgFieldLength(totalTokens, docCount), out |-> <<>>]

ScoreMatches ==
    /\ call.at = "input"
    /\ call' = [call EXCEPT !.at = "scored",
                  !.out = <<Bm25Score(call.totalDocs, call.df, call.tf,
                                      call.fieldLength, call.avg),
                            Bm25Score(call.totalDocs, call.df, 1,
                                      call.fieldLength, call.avg)>>]
    /\ UNCHANGED handle

NextScore == ScoreMatches

SpecScore == InitScore /\ [][NextScore]_vars

-----------------------------------------------------------------------------
(* A boolean query is flattened, by the searcher or by the query executor *)

\* the children of the flattened queries: terms and pure-NOT boolean queries
FlatChildren ==
    {TermQ(t, BodyField) : t \in {"a", "x"}} \cup {NotQ(t, BodyField) : t \in {"a", "x"}}

\* the lists of at most MaxClauses different children drawn from C
ClauseLists(C) ==
    {l \in UNION {[1..n -> C] : n \in 0..MaxClauses} :
        \A i, j \in 1..Len(l) : l[i] = l[j] => i = j}

InitFlatten ==
    /\ Opened
    /\ ret = Unwatched
    /\ \E must \in ClauseLists(FlatChildren), should \in ClauseLists(FlatChildren),
          mustNot \in ClauseLists({TermQ(t, BodyField) : t \in {"a", "x"}}) :
          call = [fn |-> "none", at |-> "input",
                  q |-> [must |-> must, should |-> should, mustNot |-> mustNot],
                  out |-> [must |-> <<>>, should |-> <<>>, mustNot |-> <<>>]]

\* Searcher.boolSearch flattens the query
SearcherFlatten ==
    /\ call.at = "input"
    /\ call' = [call EXCEPT !.fn = "flattenBoolQuery", !.at = "flattened",
                            !.out = FlattenBoolQuery(call.q)]
    /\ UNCHANGED handle

\* Executor.executeBool flattens the query
ExecutorFlatten ==
    /\ call.at = "input"
    /\ call' = [call EXCEPT !.fn = "executeBool", !.at = "flattened",
                            !.out = ExecuteBoolFlattened(call.q)]
    /\ UNCHANGED handle

NextFlatten == SearcherFlatten \/ ExecutorFlatten

SpecFlatten == InitFlatten /\ [][NextFlatten]_vars

-----------------------------------------------------------------------------
(* The deletion bitmaps as objects.  c.heap[a] is the contents of the       *)
(* *roaring.Bitmap at address a, c.pending is Index.pendingDeletions        *)
(* (segment id -> address), c.stored the deletions bucket of the store      *)
(* (segment id -> serialized contents), c.held the bitmap of each segment   *)
(* of the snapshot a reader holds, c.segments the segments of the index.    *)

\* the two flushed segments, of two documents each, and the one they merge to
BitmapSegs == {1, 2}
MergedSeg == Max(BitmapSegs) + 1
BitmapDocNums == {1, 2}

\* roaring.New(): a new object holding bits
NewBitmap(heap, bits) == [heap |-> Append(heap, bits), addr |-> Len(heap) + 1]

\* a getDeletions that hands out the pending bitmap itself when there is one
GetDeletionsShared(c, segID) ==
    IF segID \in DOMAIN c.pending
    THEN [heap |-> [c.heap EXCEPT ![c.pending[segID]] = @ \cup BitmapAt(c.stored, segID)],
          addr |-> c.pending[segID]]
    ELSE NewBitmap(c.heap, BitmapAt(c.stored, segID))

\* Index.getDeletions over Metadata.GetDeletions: a new bitmap read from the
\* store, the pending one OR-ed into it
GetDeletionsBitmap(c, segID) ==
    LET persisted == NewBitmap(c.heap, BitmapAt(c.stored, segID))
    IN IF segID \in DOMAIN c.pending
       THEN [heap |-> [persisted.heap EXCEPT ![persisted.addr] =
                          @ \cup c.heap[c.pending[segID]]],
             addr |-> persisted.addr]
       ELSE persisted

InitBitmaps ==
    /\ Opened
    /\ ret = Unwatched
    /\ call = [fn |-> "bitmaps", heap |-> <<>>, pending |-> <<>>, stored |-> <<>>,
               held |-> <<>>, segments |-> BitmapSegs]

\* markObsoletes, from Delete or Index: docnum d of segment segID is OR-ed
\* into the pending bitmap of the segment, allocated if there is none
BitmapMarkObsoletes(segID, d) ==
    /\ segID \in call.segments
    /\ IF segID \in DOMAIN call.pending
       THEN call' = [call EXCEPT !.heap[call.pending[segID]] = @ \cup {d}]
       ELSE /\ Len(call.heap) < MaxBitmaps
            /\ call' = [call EXCEPT
                          !.heap = NewBitmap(call.heap, {d}).heap,
                          !.pending = [s \in (DOMAIN call.pending) \cup {segID} |->
                                         IF s = segID THEN NewBitmap(call.heap, {d}).addr
                                         ELSE call.pending[s]]]
    /\ UNCHANGED handle

\* Index.Snapshot: one bitmap from getDeletions for every segment of the index
RECURSIVE SnapshotBitmaps(_, _, _)
SnapshotBitmaps(c, todo, held) ==
    IF todo = {} THEN [c EXCEPT !.held = held]
    ELSE LET segID == Min(todo)
             got == GetDeletionsBitmap(c, segID)
         IN SnapshotBitmaps([c EXCEPT !.heap = got.heap], todo \ {segID},
                            [s \in (DOMAIN held) \cup {segID} |->
                               IF s = segID THEN got.addr ELSE held[s]])

BitmapSnapshot ==
    /\ Len(call.heap) + Cardinality(call.segments) <= MaxBitmaps
    /\ call' = SnapshotBitmaps(call, call.segments, <<>>)
    /\ UNCHANGED handle

\* the transaction of flushInternal and what follows it: every pending bitmap
\* that is not empty is OR-ed into a bitmap read from the store and written
\* back; the index gets a new, empty pending map
BitmapFlush ==
    /\ call' = [call EXCEPT
                  !.stored = [s \in (DOMAIN call.stored)
                                 \cup {t \in DOMAIN call.pending :
                                          call.heap[call.pending[t]] # {}} |->
                                BitmapAt(call.stored, s)
                                  \cup (IF s \in DOMAIN call.pending
                                        THEN call.heap[call.pending[s]] ELSE {})],
                  !.pending = <<>>]
    /\ UNCHANGED handle

\* Index.Merge of the two segments: their bitmaps are deleted from the store
\* and the merged segment takes their place
BitmapMerge ==
    /\ call.segments = BitmapSegs
    /\ call' = [call EXCEPT !.stored = Restrict(@, (DOMAIN @) \ BitmapSegs),
                            !.segments = {MergedSeg}]
    /\ UNCHANGED handle

NextBitmaps ==
    \/ \E segID \in BitmapSegs \cup {MergedSeg}, d \in BitmapDocNums :
          BitmapMarkObsoletes(segID, d)
    \/ BitmapSnapshot
    \/ BitmapFlush
    \/ BitmapMerge

SpecBitmaps == InitBitmaps /\ [][NextBitmaps]_vars

-----------------------------------------------------------------------------
(* Segment.getFST called by several goroutines on one open segment.         *)
(* c.fsts is the cache s.fsts, c.readers and c.writer the holders of        *)
(* s.fstsMu, c.loads[f] the number of times vellum.Load ran for field f;    *)
(* for goroutine g, c.arg[g] is its fieldName, c.pc[g] its position,        *)
(* c.fst[g] its local fst and c.out[g] what it returned.                    *)

Callers == 1..NumCallers

\* the fields asked for: the two the segment has and one it has not
FstFields == Range(SegFields) \cup {"title"}

\* the FST object the n-th vellum.Load of a field makes
LoadedFST(fieldName, n) == [field |-> fieldName, load |-> n]

\* the nil *vellum.FST
NoFST == LoadedFST("", 0)

\* what getFST returns
FstResult(fst, err) == [fst |-> fst, err |-> err]

\* s.fsts[fieldName]: the cached FST, nil when there is none
CachedFST(c, fieldName) ==
    IF fieldName \in DOMAIN c.fsts THEN c.fsts[fieldName] ELSE NoFST

\* a second look that never finds the field
DoubleCheckSkipped(c, fieldName) == NoFST

\* the second look at the cache, under the write lock
DoubleChecked(c, fieldName) == CachedFST(c, fieldName)

InitFst ==
    /\ Opened
    /\ ret = Unwatched
    /\ \E arg \in [Callers -> FstFields] :
          call = [fn |-> "fst", arg |-> arg,
                  pc |-> [g \in Callers |-> "start"],
                  fst |-> [g \in Callers |-> NoFST],
                  missed |-> [g \in Callers |-> FALSE],
                  out |-> [g \in Callers |-> FstResult(NoFST, OK)],
                  readers |-> {}, writer |-> Nil,
                  fsts |-> <<>>, loads |-> [f \in FstFields |-> 0]]

\* s.fstsMu.RLock(); fst, ok := s.fsts[fieldName]
FstRLock(g) ==
    /\ call.pc[g] = "start"
    /\ call.writer = Nil
    /\ call' = [call EXCEPT !.readers = @ \cup {g},
                            !.fst[g] = CachedFST(call, call.arg[g]),
                            !.pc[g] = "rlocked"]
    /\ UNCHANGED handle

\* s.fstsMu.RUnlock(); if ok { return fst, nil }
FstRUnlock(g) ==
    /\ call.pc[g] = "rlocked"
    /\ call' = [call EXCEPT !.readers = @ \ {g},
                            !.out[g] = FstResult(call.fst[g], OK),
                            !.missed[g] = (call.fst[g] = NoFST),
                            !.pc[g] = IF call.fst[g] # NoFST THEN "done" ELSE "missed"]
    /\ UNCHANGED handle

\* s.fstsMu.Lock() and the second look: a hit returns the cached FST
FstLock(g) ==
    /\ call.pc[g] = "missed"
    /\ call.writer = Nil
    /\ call.readers = {}
    /\ call' = [call EXCEPT !.writer = g,
                            !.fst[g] = DoubleChecked(call, call.arg[g]),
                            !.out[g] = FstResult(DoubleChecked(call, call.arg[g]), OK),
                            !.pc[g] = IF DoubleChecked(call, call.arg[g]) # NoFST
                                      THEN "unlock" ELSE "load"]
    /\ UNCHANGED handle

\* the field's metadata, vellum.Load and s.fsts[fieldName] = fst
FstLoad(g) ==
    LET fieldName == call.arg[g]
        fst == LoadedFST(fieldName, call.loads[fieldName] + 1)
    IN
    /\ call.pc[g] = "load"
    /\ IF GetFST(Nil, fieldName) # OK
       THEN call' = [call EXCEPT !.out[g] = FstResult(NoFST, ErrFieldNotFound),
                                 !.pc[g] = "unlock"]
       ELSE call' = [call EXCEPT
                       !.loads[fieldName] = @ + 1,
                       !.fsts = [f \in (DOMAIN call.fsts) \cup {fieldName} |->
                                   IF f = fieldName THEN fst ELSE call.fsts[f]],
                       !.fst[g] = fst,
                       !.out[g] = FstResult(fst, OK),
                       !.pc[g] = "unlock"]
    /\ UNCHANGED handle

\* the deferred s.fstsMu.Unlock() and the return
FstUnlock(g) ==
    /\ call.pc[g] = "unlock"
    /\ call' = [call EXCEPT !.writer = Nil, !.pc[g] = "done"]
    /\ UNCHANGED handle

NextFst ==
    \E g \in Callers :
       \/ FstRLock(g)
       \/ FstRUnlock(g)
       \/ FstLock(g)
       \/ FstLoad(g)
       \/ FstUnlock(g)

SpecFst == InitFst /\ [][NextFst]_vars

-----------------------------------------------------------------------------
(* Properties *)

NoDup(s) == \A i, j \in 1..Len(s) : s[i] = s[j] => i = j

\* the results of query q on the snapshot Index.Snapshot would return now
QueryNow(q) == RunQuery(TakeSnapshot, builders, segs, q)

\* the results of query q on the snapshot the reader holds
QueryHeld(q) == RunQuery(snap, builders, segs, q)

\* C1: after any sequence of Index, Delete, Flush and Merge, a query run against
\* a snapshot (the one a reader holds, or one captured now) returns each
\* external id at most once.
C1_EachIdAtMostOnce ==
    /\ \A q \in Queries : NoDup(QueryNow(q).ids)
    /\ snap # NoSnap => \A q \in Queries : NoDup(QueryHeld(q).ids)

\* C1 witness: a live copy of one id sits in a segment and another in the
\* builder, both match the term, and the query returns the id once.
C1_Witness ==
    \E id \in ExtIds, t \in Terms :
       LET sn == TakeSnapshot
           cands == SearchCandidates(sn, builders, segs, t, BodyField)
           res == Search(sn, builders, segs, t, BodyField)
       IN /\ Cardinality({i \in 1..Len(cands) : cands[i] = id}) >= 2
          /\ id \in Range(builders[builder].DocIDs)
          /\ \E s \in Range(segments) : id \in Range(segs[s].DocIDs)
          /\ Cardinality({i \in 1..Len(res) : res[i] = id}) = 1

\* C2: once Delete(id) has returned successfully and until id is indexed again,
\* no query on a snapshot taken now returns id.
C2_DeletedNeverReturned ==
    \A id \in ExtIds :
       live[id] = Absent =>
          \A q \in Queries : id \notin Range(QueryNow(q).ids)

\* C3: once Index(id, newFields) has replaced an earlier version of id, a query
\* on the body field for a term the current version does not contain does not
\* return id.
C3_NoStaleHit ==
    \A id \in ExtIds :
       live[id] # Absent =>
          \A q \in Queries :
             (q.field = BodyField /\ q.term \in Terms /\ q.term \notin live[id]) =>
                id \notin Range(QueryNow(q).ids)

\* C4: the results of every query on a held snapshot are the same after any
\* Index, Delete or Flush that completes on the index.
C4_SnapshotImmutable ==
    [][(snap # NoSnap /\ snap' = snap) =>
          \A q \in Queries :
             RunQuery(snap', builders', segs', q) = RunQuery(snap, builders, segs, q)]_vars

\* a flush of a non-empty builder that succeeded, called directly or by Index
FlushSucceeded ==
    \/ /\ ret' = Returned("Flush", OK)
       /\ fmIDs' = fmIDs
       /\ ~closed
       /\ BuilderNumDocs(builders[builder]) > 0
    \/ /\ ret' = Returned("Index", OK)
       /\ Len(segments') > Len(segments)

\* a merge that succeeded, called directly or by ForceMerge
MergeSucceeded ==
    \/ ret' = Returned("Merge", OK) /\ fmIDs' = fmIDs
    \/ ret' = Returned("ForceMerge", OK) /\ fmIDs # NoIDs

\* C5: the epoch (the index's and the store's) never decreases, and every
\* successful flush of a non-empty builder and every successful merge leaves it
\* strictly greater than before.
C5_EpochMonotonic ==
    [][/\ epoch' >= epoch
       /\ metaEpoch' >= metaEpoch
       /\ (FlushSucceeded \/ MergeSucceeded) =>
             (epoch' > epoch /\ metaEpoch' > metaEpoch)]_vars

\* C5 witness: a merge has succeeded after two flushes, the epoch is 3.
C5_Witness ==
    /\ ret = Returned("Merge", OK)
    /\ epoch = 3
    /\ metaEpoch = 3
    /\ Len(segments) = 1

\* a step in which Merge replaced two or more segments by a new one
MergeStep == epoch' > epoch /\ Len(segments') < Len(segments)

\* C6: a merge re-adds a document of a chosen segment if and only if its docnum
\* is not in that segment's deletion bitmap (persisted or pending), so nothing
\* deleted before the merge is in the merged segment.
C6_MergeDropsDeleted ==
    [][MergeStep =>
          LET newID == segments'[Len(segments')]
              chosen == Chosen(segments, Range(segments) \ Range(segments'))
              expected == ReAdded(chosen, [s \in Range(chosen) |-> GetDeletions(s)])
          IN /\ segs'[newID].DocIDs = expected.DocIDs
             /\ segs'[newID].Docs = expected.Docs]_vars

\* C7: after Delete(id), then Flush, then a ForceMerge that merged, no stored
\* document with external id id remains in any segment of the index.
C7_ForceMergeRemovesDeleted ==
    scenario.stage = "merged" =>
       \A s \in Range(segments) : scenario.id \notin Range(segs[s].DocIDs)

\* C8: when the metadata transaction of a flush or of a merge fails, the
\* segment file that operation wrote is gone from disk when the error returns.
C8_FailedTxRemovesFile ==
    [][(ret' # ret /\ ret'.err = ErrTx) =>
          (metaEpoch + 1) \notin DOMAIN files']_vars

\* C9: every operation invoked on the handle after Close fails with the
\* closed-index error (a repeated Close is a no-op).
C9_ClosedIndexError ==
    closed => (ret.op = "Close" \/ ret.err = ErrClosed)

\* C10: no segment a held snapshot references is unmapped, in particular not by
\* a merge that completes while the snapshot is in use.
C10_SnapshotSegmentsMapped ==
    snap # NoSnap => \A s \in SnapSegIds(snap) : Mapped(segs[s])

\* C11: for a segment that stays in the index, the docnums marked deleted
\* (persisted or pending) never shrink: no step removes one.
C11_DeletionsOnlyGrow ==
    [][\A s \in Range(segments) \cap Range(segments') :
          GetDeletions(s) \subseteq GetDeletions(s)']_vars

\* C11 witness: a flush has moved the pending tombstone of a document of the
\* first segment, re-indexed since, into the store; the segment is still in
\* the index and the pending map is empty.
C11_Witness ==
    /\ ret = Returned("Flush", OK)
    /\ pendingDeletions = <<>>
    /\ Len(segments) >= 2
    /\ \E d \in PersistedDeletions(segments[1]) :
          segs[segments[1]].DocIDs[d] \in Range(segs[segments[2]].DocIDs)

\* the documents a snapshot shows: every version that is not deleted
Visible(sn, bh, sh) ==
    UNION {{[id |-> sh[sn.segments[k].seg].DocIDs[d], body |-> sh[sn.segments[k].seg].Docs[d]]
            : d \in (1..SegNumDocs(sh[sn.segments[k].seg])) \ sn.segments[k].deleted}
           : k \in 1..Len(sn.segments)}
    \cup (IF sn.builder = Nil THEN {}
          ELSE {[id |-> bh[sn.builder].DocIDs[d], body |-> bh[sn.builder].Docs[d]]
                : d \in (1..BuilderTotalDocs(bh[sn.builder])) \ bh[sn.builder].Deleted})

\* term children on the body field; no document has the term "y" in its body
BoolChildren == {TermQ(t, BodyField) : t \in {"a", "x", "y"}}

NotChildren == {NotQ(t, BodyField) : t \in {"a", "x"}}

\* the boolean queries that hold negations only, nested in must or not
NotOnlyQueries ==
    {q \in [must : ClauseLists(NotChildren), should : {<<>>},
            mustNot : ClauseLists(BoolChildren)] :
        Len(q.must) + Len(q.mustNot) > 0}

\* the answer of boolSearch on the snapshot Index.Snapshot would return now
BoolNow(q) == BoolSearch(TakeSnapshot, builders, segs, q)

\* C12: a boolean query whose must and should lists are empty once flattened
\* and whose must_not list is not fails with the error "NOT queries require a
\* positive clause" and returns no results.
C12_NotOnlyRefused ==
    \A q \in NotOnlyQueries : BoolNow(q) = Failed(ErrNotOnly)

\* C12 witness: the index shows a document without the term x, the query
\* "NOT x" nested in must is refused although a document would qualify.
C12_Witness ==
    /\ \E v \in Visible(TakeSnapshot, builders, segs) : "x" \notin v.body
    /\ BoolNow([must |-> <<NotQ("x", BodyField)>>, should |-> <<>>, mustNot |-> <<>>])
          = Failed(ErrNotOnly)

\* document version v has the term of child c in its body
Matches(v, c) == c.term \in v.body

\* the ids of the documents a snapshot shows that match every child of must,
\* some child of should (when there is one) and no child of mustNot
MatchingIds(sn, bh, sh, q) ==
    {v.id : v \in {w \in Visible(sn, bh, sh) :
                      /\ \A k \in 1..Len(q.must) : Matches(w, q.must[k])
                      /\ Len(q.should) > 0 => \E k \in 1..Len(q.should) : Matches(w, q.should[k])
                      /\ \A k \in 1..Len(q.mustNot) : ~Matches(w, q.mustNot[k])}}

\* boolSearch answers q with exactly the matching documents
AnswersExactly(q) ==
    /\ BoolNow(q).err = OK
    /\ Range(BoolNow(q).ids) = MatchingIds(TakeSnapshot, builders, segs, q)

\* the boolean queries with children in must and in should
ComplexQueries ==
    {q \in [must : ClauseLists(BoolChildren), should : ClauseLists(BoolChildren),
            mustNot : ClauseLists(BoolChildren)] :
        Len(q.must) > 0 /\ Len(q.should) > 0}

\* C13: a boolean query with children in must and in should returns exactly
\* the documents that match every must child, at least one should child and no
\* must_not child, also when no should child matches any document.
C13_MustAndShould ==
    \A q \in ComplexQueries : AnswersExactly(q)

\* the boolean queries with children in exactly one of must and should
OneSidedQueries ==
    {q \in [must : ClauseLists(BoolChildren), should : ClauseLists(BoolChildren),
            mustNot : ClauseLists(BoolChildren)] :
        (Len(q.must) > 0) # (Len(q.should) > 0)}

\* C14: a boolean query with children in exactly one of must and should
\* returns exactly the documents that match every must child (must only) or
\* some should child (should only) and no must_not child.
C14_OnePositiveList ==
    \A q \in OneSidedQueries : AnswersExactly(q)

\* C14 witness: documents x and y both have the term a, x also has the term
\* x; "a NOT x" as a must and as a should query returns y alone.
C14_Witness ==
    /\ {"x", "y"} \subseteq {v.id : v \in {w \in Visible(TakeSnapshot, builders, segs) :
                                              "a" \in w.body}}
    /\ BoolNow([must |-> <<TermQ("a", BodyField)>>, should |-> <<>>,
                mustNot |-> <<TermQ("x", BodyField)>>]).ids = <<"y">>
    /\ BoolNow([must |-> <<>>, should |-> <<TermQ("a", BodyField), TermQ("y", BodyField)>>,
                mustNot |-> <<TermQ("x", BodyField)>>]).ids = <<"y">>

\* the phrase stands in the text: token i of the phrase at position p + i
StandsIn(text, terms) ==
    \E p \in 0..(Len(text) - 1) :
       \A i \in 0..(Len(terms) - 1) :
          p + i + 1 <= Len(text) /\ text[p + i + 1] = terms[i + 1]

C16_CodecRoundTrip ==
    call.fn = "EncodePostings" /\ call.at = "decoded" =>
       call.out = Decoded(OK, call.postings)

\* two postings whose differences need one, two and three bytes
C16_Witness ==
    /\ call.fn = "EncodePostings" /\ call.at = "decoded"
    /\ Len(call.postings) = 2
    /\ call.postings[1].DocNum = 128 /\ call.postings[2].DocNum = 20000
    /\ call.postings[2].Positions = <<1, 200>>
    /\ call.out.postings = call.postings

DocNumsOf(postings) == {postings[i].DocNum : i \in 1..Len(postings)}

\* C17: the bitmap decoded from the bytes of a posting list holds the docnums
\* of the list that are not in the deletion bitmap, and all of them when the
\* bitmap is nil or empty.
C17_BitmapRoundTrip ==
    call.fn = "EncodePostings" /\ call.at = "bitmap" =>
       call.out = DecodedBitmap(OK, DocNumsOf(call.postings) \ call.deleted.bits)

\* one docnum of the list is deleted, another is not
C17_Witness ==
    /\ call.fn = "EncodePostings" /\ call.at = "bitmap"
    /\ DocNumsOf(call.postings) = {128, 20000}
    /\ call.deleted = Bitmap({1, 128})
    /\ call.out.bits = {20000}

NonIncreasing(results) ==
    \A i \in 1..(Len(results) - 1) : results[i].Score >= results[i + 1].Score

\* C18: the list a query returns is ordered by score, no result having a
\* higher score than the one before it.
C18_SortedByScore ==
    call.fn = "sortByScore" /\ call.at # "input" => NonIncreasing(call.out)

\* ties and an inversion in the input of the executor's sort
C18_Witness ==
    /\ call.fn = "sortByScore" /\ call.at = "executor"
    /\ [i \in 1..Len(call.results) |-> call.results[i].Score] = <<0, 2, 1, 2>>
    /\ [i \in 1..Len(call.out) |-> call.out[i].Score] = <<2, 2, 1, 0>>

\* a field no document has
MissingField == "title"

\* C19: a term query on a field that no segment has returns the error
\* "field not found" to the caller, not an empty result.
C19_MissingFieldSurfaced ==
    \A t \in Terms :
       Len(segments) > 0 =>
          FieldSearch(TakeSnapshot, builders, segs, t, MissingField).err = ErrFieldNotFound

\* C20 as stated: whenever Index has returned without error, the builder
\* holds fewer documents than the flush threshold.
C20_BelowThreshold ==
    ret = Returned("Index", OK) =>
       BuilderNumDocs(builders[builder]) < call.flushThreshold

\* C20, for a flush threshold of 1 or more: whenever Index has returned
\* without error, the builder holds fewer documents than the threshold (the
\* call that reached the threshold flushed).
C20_BelowPositiveThreshold ==
    call.flushThreshold >= 1 /\ ret = Returned("Index", OK) =>
       BuilderNumDocs(builders[builder]) < call.flushThreshold

\* the second Index reached the threshold and flushed both documents
C20_Witness ==
    /\ call.flushThreshold = FlushThreshold
    /\ ret = Returned("Index", OK)
    /\ added = FlushThreshold
    /\ Len(segments) = 1
    /\ SegNumDocs(segs[segments[1]]) = FlushThreshold
    /\ BuilderNumDocs(builders[builder]) = 0

\* a / b < n for fractions with positive denominators and a positive b
RatioBelow(a, b, n) == a.num * b.den < n * b.num * a.den

\* C21: under BM25, with the field length and the collection statistics
\* fixed, the score at term frequency tf > 1 is less than tf times the score
\* at term frequency 1 (the idf, which is the same in both and never 0,
\* cancels in the ratio).
C21_Bm25Saturation ==
    call.fn = "scoreAndSort" /\ call.at = "scored" /\ call.tf > 1 =>
       /\ call.out[1].idf = call.out[2].idf
       /\ call.out[1].idf.num # call.out[1].idf.den
       /\ RatioBelow(call.out[1].weight, call.out[2].weight, call.tf)

\* the term frequency doubled from 1 to 2 in a field longer than the average
C21_Witness ==
    /\ call.fn = "scoreAndSort" /\ call.at = "scored"
    /\ call.tf = 2 /\ call.fieldLength = 3 /\ call.avg = Frac(3, 2)
    /\ RatioBelow(call.out[1].weight, call.out[2].weight, 2)

\* the copies of external id id that no tombstone covers: in the builder,
\* and in every open segment (deletion bitmap persisted or pending)
BuilderCopies(id) ==
    IF builder = Nil THEN {}
    ELSE {<<0, i>> : i \in {i \in 1..Len(builders[builder].DocIDs) :
                               /\ builders[builder].DocIDs[i] = id
                               /\ i \notin builders[builder].Deleted}}

SegmentCopies(id) ==
    UNION {{<<s, d>> : d \in {d \in 1..SegNumDocs(segs[s]) :
                                 segs[s].DocIDs[d] = id /\ d \notin GetDeletions(s)}} :
           s \in Range(segments)}

LiveCopies(id) == BuilderCopies(id) \cup SegmentCopies(id)

\* C22: when Index or Delete has returned, no external id has more than one
\* copy without a tombstone across the builder and the open segments.
C22_OneLiveCopy ==
    (ret.op \in {"Index", "Delete"} /\ ~crashed) =>
       \A id \in ExtIds : Cardinality(LiveCopies(id)) <= 1

\* the docnums of segment content c that hold external id id
StoredAt(c, id) == {d \in 1..SegNumDocs(c) : c.DocIDs[d] = id}

CandidatesNow(q) ==
    IF q.kind = "search"
    THEN TermCandidates(TakeSnapshot, builders, segs, q.term, q.field)
    ELSE DocSetCandidates(TakeSnapshot, builders, segs,
                          TermDocSet(TakeSnapshot, builders, segs, q.term, q.field))

MatchesNow(q) == SeenMatches(CandidatesNow(q))

\* where the newest of the matching copies of id sits: in the builder if it
\* has one, else in the last segment that has one
NewestCopy(cands, id) ==
    LET at == {cands[k].segmentIdx : k \in {k \in 1..Len(cands) : cands[k].docID = id}}
    IN IF -1 \in at THEN -1 ELSE Max(at)

\* the copies of id among the matching ones sit in more than one place
SeveralCopies(cands, id) ==
    Cardinality({cands[k].segmentIdx : k \in {k \in 1..Len(cands) : cands[k].docID = id}}) > 1

\* C24: the one result a term query reports for an external id is taken from
\* the newest of the matching copies without a tombstone: the builder's before
\* any segment's, a later segment's before an earlier segment's.
C24_NewestCopyReported ==
    ~closed /\ ~crashed =>
       \A q \in Queries :
          \A k \in 1..Len(MatchesNow(q)) :
             MatchesNow(q)[k].segmentIdx =
                NewestCopy(CandidatesNow(q), MatchesNow(q)[k].docID)

\* child c is a boolean query that holds must_not clauses only
PureNot(c) == c.kind = "not"

\* the children of list l that are not pure-NOT queries, in the order of l
Kept(l) == SelectSeq(l, LAMBDA c : ~PureNot(c))

\* the negations of the pure-NOT children of list l
Negations(l) == {TermQ(l[k].term, l[k].field) : k \in {k \in 1..Len(l) : PureNot(l[k])}}

\* C25: flattening removes every pure-NOT child from must and from should and
\* puts its negations into must_not, beside the ones the query had.
C25_NotChildrenHoisted ==
    call.at = "flattened" =>
       /\ call.out.must = Kept(call.q.must)
       /\ call.out.should = Kept(call.q.should)
       /\ Range(call.out.mustNot) =
             Range(call.q.mustNot) \cup Negations(call.q.must) \cup Negations(call.q.should)

\* the term queries that name no field, run as a search or as a docset
NoFieldQueries == {q \in Queries : q.field = ""}

\* C26: a term query with no field returns only documents that hold the term
\* in a field other than "_id" (here: in the body); the term being a
\* document's external id does not make the document a result.
C26_NoFieldSkipsId ==
    \A q \in NoFieldQueries :
       \A k \in 1..Len(QueryNow(q).ids) :
          \E v \in Visible(TakeSnapshot, builders, segs) :
             v.id = QueryNow(q).ids[k] /\ q.term \in v.body

\* a call of Flush that returned without an error
FlushReturned == ret' = Returned("Flush", OK) /\ fmIDs' = fmIDs /\ ~closed

\* the step left nothing pending and every bitmap of the store holds what it
\* held before and what was pending for its segment
PendingPersisted ==
    /\ pendingDeletions' = <<>>
    /\ \A s \in (DOMAIN pendingDeletions) \cup (DOMAIN metaDeletions) :
          BitmapAt(pendingDeletions, s) \cup BitmapAt(metaDeletions, s)
             \subseteq BitmapAt(metaDeletions', s)

BuilderEmpty ==
    \A i \in 1..Len(builders[builder].DocIDs) : i \in builders[builder].Deleted

\* C28: a Flush called while the builder is empty returns without an error
\* and changes nothing: segment list, epoch, builder, pending deletions,
\* metadata store and files are as before.
C28_EmptyFlushNoOp ==
    [][(~closed /\ BuilderEmpty /\ ret'.op = "Flush" /\ fmIDs' = fmIDs) =>
          /\ ret' = Returned("Flush", OK)
          /\ UNCHANGED <<segments, segs, epoch, builder, builders, pendingDeletions,
                         metaEpoch, metaSegments, metaDeletions, metaDocIDs, metaOpen,
                         files>>]_vars

\* C28 witness: Flush has returned on a builder whose only document is
\* tombstoned, while a tombstone is pending for the one segment: the tombstone
\* is still pending, the store holds no deletion and there is one segment.
C28_Witness ==
    /\ ret = Returned("Flush", OK)
    /\ ~closed
    /\ builders[builder].DocIDs = <<"x">>
    /\ builders[builder].Deleted = {1}
    /\ pendingDeletions = <<{1}>>
    /\ metaDeletions = <<>>
    /\ segments = <<1>>

\* a step in which a flush or a merge generated a segment id and built the
\* file: it committed, or it failed in the transaction or in segment.Open
BuiltSegment ==
    /\ ret'.err \in {ErrTx, ErrOpen} \/ metaEpoch' > metaEpoch
    /\ ~(fmIDs = NoIDs /\ fmIDs' # NoIDs)

\* C29: the segment id a flush or a merge generates, the store's epoch + 1,
\* is not the id of a segment of the index and not the name of a segment file
\* on disk.
C29_FreshSegmentId ==
    [][BuiltSegment =>
          /\ (metaEpoch + 1) \notin Range(segments)
          /\ (metaEpoch + 1) \notin DOMAIN files]_vars

\* the ids of list l grow strictly from each entry to the next
StrictlyIncreasing(l) == \A i, j \in 1..Len(l) : i < j => l[i] < l[j]

\* C30: the segment list of the index and the one in the metadata store are
\* in commit order at all times: segment ids strictly increase along each.
C30_CommitOrder ==
    /\ StrictlyIncreasing(segments)
    /\ StrictlyIncreasing(metaSegments)

\* C30 witness: a flush whose segment.Open failed left segment 2 in the store
\* only; the next flush put segment 3 last in both lists.
C30_Witness ==
    /\ ret = Returned("Flush", OK)
    /\ segments = <<1, 3>>
    /\ metaSegments = <<1, 2, 3>>

\* a step in which a ForceMerge that had found two or more segments returned
\* without an error
ForceMergeReturned == fmIDs # NoIDs /\ fmIDs' = NoIDs /\ ret' = Returned("ForceMerge", OK)

\* C31: when a ForceMerge that found at least two segments returns
\* successfully, the index consists of exactly one segment, whatever Flush or
\* Merge calls ran between its reading of the segment list and its merge.
C31_ForceMergeLeavesOne ==
    [][ForceMergeReturned => Len(segments') = 1]_vars

\* C32: the bitmaps a snapshot holds are its own: no Delete or Index
\* (markObsoletes), Flush or Merge on the index changes the contents of a
\* bitmap that a snapshot holds.
C32_SnapshotBitmapsPrivate ==
    [][call.fn = "bitmaps" =>
          \A s \in DOMAIN call.held :
             call.held[s] \in DOMAIN call'.heap
             /\ call'.heap[call.held[s]] = call.heap[call.held[s]]]_vars

\* C32 witness: the snapshot holds a bitmap of segment 1 with docnum 1, taken
\* while that tombstone was pending; since then docnum 2 of the segment was
\* deleted and is in the pending bitmap, and the snapshot's bitmap is as it was.
C32_Witness ==
    /\ call.fn = "bitmaps"
    /\ 1 \in DOMAIN call.held
    /\ call.heap[call.held[1]] = {1}
    /\ 1 \in DOMAIN call.pending
    /\ call.heap[call.pending[1]] = {1, 2}
    /\ call.pending[1] # call.held[1]

FstReturned == {g \in Callers : call.pc[g] = "done"}

\* C34: when several goroutines ask for the same field of a segment at the
\* same time, the field's FST is loaded and put into the cache at most once,
\* and every caller gets the cached FST.
C34_FstLoadedOnce ==
    call.fn = "fst" =>
       /\ \A f \in FstFields : call.loads[f] <= 1
       /\ \A g \in FstReturned :
             call.out[g].err = OK =>
                /\ call.arg[g] \in DOMAIN call.fsts
                /\ call.out[g].fst = call.fsts[call.arg[g]]
       /\ \A g, h \in FstReturned : call.arg[g] = call.arg[h] => call.out[g] = call.out[h]

\* C34 witness: two goroutines asked for the same field and both missed it
\* under the read lock; one loaded the FST, and both have returned it.
C34_Witness ==
    /\ call.fn = "fst"
    /\ \E g, h \in FstReturned :
          /\ g # h
          /\ call.arg[g] = BodyField /\ call.arg[h] = BodyField
          /\ call.missed[g] /\ call.missed[h]
          /\ call.out[g] = FstResult(LoadedFST(BodyField, 1), OK)
          /\ call.out[h] = FstResult(LoadedFST(BodyField, 1), OK)
          /\ call.loads[BodyField] = 1

\* a Merge or ForceMerge returned the error of its metadata transaction
MergeTxFailed ==
    ret' = Returned("Merge", ErrTx) \/ ret' = Returned("ForceMerge", ErrTx)

\* C35: a merge that fails because its metadata transaction aborts leaves the
\* index as it was: the same segments are listed, every one of them is still
\* mapped, and the epoch is the same.
C35_FailedMergeLeavesIndex ==
    [][MergeTxFailed =>
          /\ segments' = segments
          /\ epoch' = epoch
          /\ \A s \in Range(segments') : Mapped(segs'[s])]_vars

\* C36: after every operation, failed or not, the segment list and the epoch
\* the coordinator holds in memory are the ones committed in the metadata store.
C36_MemoryMatchesStore ==
    ~crashed => (segments = metaSegments /\ epoch = metaEpoch)

\* C37: Delete acknowledged a tombstone for a document of a persisted segment
\* and a Flush after it returned successfully; after Close and New on the
\* same directory the document is deleted in every segment that holds it.
C37_TombstoneDurable ==
    scenario.stage = "reopened" =>
       \A s \in Range(segments) :
          DocNumbers(segs[s], {scenario.id}) \subseteq GetDeletions(s)

KeepsInsertionOrder(out) ==
    \A i, j \in 1..Len(out) :
       (i < j /\ out[i].Score = out[j].Score) => out[i].DocID < out[j].DocID

\* C39: results with equal scores keep their insertion order in the list that
\* is returned: the sort by score is stable.
C39_SortStable ==
    (call.fn = "sortByScore" /\ call.at \in {"searcher", "executor"}) =>
       KeepsInsertionOrder(call.out)

====
